---- MODULE Spec2Model ----
(***************************************************************************)
(* Model of the prosemirror-rs document tree and its edit algebra:         *)
(* Text / Fragment / Node sizes, position resolution, slicing and the      *)
(* replace algorithm, over the markdown schema.                            *)
(*                                                                         *)
(* Rust Result/Option values are records tagged "Ok" / "Err" / "None";     *)
(* a Rust panic (failed assert!, slice index out of range, unwrap on None, *)
(* arithmetic underflow with overflow checks on) is the value Panic(..).   *)
(***************************************************************************)
EXTENDS Integers, Sequences, FiniteSets, TLC

VARIABLES doc, op, req, res, overflow_checks, steps

vars == <<doc, op, req, res, overflow_checks, steps>>

(***************************************************************************)
(* Bounds of the model.                                                    *)
(***************************************************************************)
\* Longest run of one character used when building the document corpus.
MaxTextLen == 2
\* How far past the end of the document requested positions may lie.
MaxOver == 1
\* Largest open depth of a hand-built (not Node::slice-made) slice.
MaxOpen == 2
\* How many results are taken as the next document
MaxSteps == 1

(***************************************************************************)
(* Result values.                                                          *)
(***************************************************************************)
Ok(v) == [tag |-> "Ok", val |-> v]
Err(e) == [tag |-> "Err", err |-> e]
Panic(m) == [tag |-> "Panic", msg |-> m]
None == [tag |-> "None"]
Some(v) == [tag |-> "Some", val |-> v]
IsOk(r) == r.tag = "Ok"
IsErr(r) == r.tag = "Err"
IsPanic(r) == r.tag = "Panic"

\* The ? operator: F goes on with the value of an Ok; an Err or a panic is
\* what the function returns
Try(r, F(_)) == IF IsOk(r) THEN F(r.val) ELSE r

\* `let v = e;` followed by F
Let(e, F(_)) == F(e)

Min(a, b) == IF a < b THEN a ELSE b

(***************************************************************************)
(* Text: a string (sequence of characters) with its cached UTF-16 length.  *)
(***************************************************************************)
\* Characters outside the Basic Multilingual Plane (two UTF-16 code units).
Astral == {"U+1F60A"}

\* char::len_utf16
len_utf16(c) == IF c \in Astral THEN 2 ELSE 1

RECURSIVE encode_utf16_count(_)
encode_utf16_count(s) ==
    IF s = <<>> THEN 0 ELSE len_utf16(Head(s)) + encode_utf16_count(Tail(s))

\* impl From<String> for Text
Text_from(s) == [content |-> s, len_utf16 |-> encode_utf16_count(s)]

\* Text::join
Text_join(l, r) ==
    [content |-> l.content \o r.content, len_utf16 |-> l.len_utf16 + r.len_utf16]

\* util::split_at_utf16: Ok(<<left, right>>), or a panic inside a character.
RECURSIVE split_at_utf16_from(_, _, _)
split_at_utf16_from(text, k, index) ==
    IF index = 0 THEN Ok(<<SubSeq(text, 1, k), SubSeq(text, k + 1, Len(text))>>)
    ELSE IF k >= Len(text) THEN Ok(<<text, <<>> >>)
    ELSE IF len_utf16(text[k + 1]) > index
         THEN Panic("Can't split in the middle of a character")
         ELSE split_at_utf16_from(text, k + 1, index - len_utf16(text[k + 1]))

split_at_utf16(text, index) == split_at_utf16_from(text, 0, index)

(***************************************************************************)
(* Marks and mark sets (a Vec sorted by mark type).                        *)
(***************************************************************************)
MarkTypes == <<"Strong", "Em", "Code", "Link">>

Strong == [type |-> "Strong", attrs |-> <<>>]
Em == [type |-> "Em", attrs |-> <<>>]
Code == [type |-> "Code", attrs |-> <<>>]
Link(href) == [type |-> "Link", attrs |-> <<href>>]

\* Mark::into_set
into_set(mark) == <<mark>>

(***************************************************************************)
(* Nodes.  A node with content carries a Fragment [inner, size]; a text    *)
(* node carries a Text and a MarkSet; the other leaves carry neither.      *)
(***************************************************************************)
ContentTypes == {"Doc", "Paragraph", "Blockquote", "Heading", "CodeBlock",
                 "OrderedList", "BulletList", "ListItem"}

\* Node::text_node / Node::is_text
is_text(n) == n.type = "Text"

\* Node::content is Some for the variants that hold a Fragment
has_content(n) == n.type \in ContentTypes

\* Node::is_leaf
is_leaf(n) == ~has_content(n)

\* Node::node_size
node_size(n) ==
    IF has_content(n) THEN n.content.size + 2
    ELSE IF is_text(n) THEN n.text.len_utf16
    ELSE 1

\* Node::content_size
content_size(n) == IF has_content(n) THEN n.content.size ELSE 0

\* Node::child_count
child_count(n) == IF has_content(n) THEN Len(n.content.inner) ELSE 0

RECURSIVE SumSizes(_)
SumSizes(v) == IF v = <<>> THEN 0 ELSE node_size(Head(v)) + SumSizes(Tail(v))

\* impl From<Vec<S::Node>> for Fragment
Fragment_from(v) == [inner |-> v, size |-> SumSizes(v)]

\* Fragment::EMPTY
Fragment_EMPTY == [inner |-> <<>>, size |-> 0]

\* Node::content().unwrap_or(Fragment::EMPTY_REF)
content_or_empty(n) == IF has_content(n) THEN n.content ELSE Fragment_EMPTY

\* Node::copy: same variant and attributes, content mapped (leaves and text
\* are cloned).
copy(n, c) == IF has_content(n) THEN [n EXCEPT !.content = c] ELSE n

\* TextNode::same_markup
same_markup(t, other) == is_text(other) /\ other.marks = t.marks

(***************************************************************************)
(* helper.rs: programmatic node builders.                                  *)
(***************************************************************************)
text(s) == [type |-> "Text", text |-> Text_from(s), marks |-> <<>>]
marked(s, m) == [type |-> "Text", text |-> Text_from(s), marks |-> m]
em(s) == marked(s, into_set(Em))
strong(s) == marked(s, into_set(Strong))
block(t, a, v) == [type |-> t, attrs |-> a, content |-> Fragment_from(v)]
docn(v) == block("Doc", <<>>, v)
p(v) == block("Paragraph", <<>>, v)
blockquote(v) == block("Blockquote", <<>>, v)
h(level, v) == block("Heading", <<level>>, v)
h1(v) == h(1, v)
li(v) == block("ListItem", <<>>, v)
ul(v) == block("BulletList", <<FALSE>>, v)
code_block(params, v) == block("CodeBlock", <<params>>, v)
hr == [type |-> "HorizontalRule"]
br == [type |-> "HardBreak"]

(***************************************************************************)
(* Fragment operations (fragment.rs) and Node::cut (node.rs).              *)
(***************************************************************************)
Index_new(index, offset) == [index |-> index, offset |-> offset]

RECURSIVE find_index_scan(_, _, _, _, _)
find_index_scan(f, pos, round, i, cur_pos) ==
    IF i > Len(f.inner)
    THEN Panic("Invariant failed: self.size must be the sum of all node sizes")
    ELSE LET end == cur_pos + node_size(f.inner[i]) IN
         IF end >= pos
         THEN IF end = pos \/ round
              THEN Ok(Index_new(i, end))
              ELSE Ok(Index_new(i - 1, cur_pos))
         ELSE find_index_scan(f, pos, round, i + 1, end)

\* A find_index that always rounds up to the end of the child
find_index_round_up(f, pos, round) ==
    IF pos = 0 THEN Ok(Index_new(0, pos))
    ELSE IF pos = f.size THEN Ok(Index_new(Len(f.inner), pos))
    ELSE IF pos > f.size THEN Err("IndexError")
    ELSE find_index_scan(f, pos, TRUE, 1, 0)

\* Fragment::find_index; child indices are 0-based as in the source.
find_index(f, pos, round) ==
    IF pos = 0 THEN Ok(Index_new(0, pos))
    ELSE IF pos = f.size THEN Ok(Index_new(Len(f.inner), pos))
    ELSE IF pos > f.size THEN Err("IndexError")
    ELSE find_index_scan(f, pos, round, 1, 0)

\* Fragment::maybe_child (0-based index)
maybe_child(f, index) ==
    IF index >= 0 /\ index < Len(f.inner) THEN Some(f.inner[index + 1]) ELSE None

RECURSIVE Fragment_cut(_, _, _)
RECURSIVE Node_cut(_, _, _)
RECURSIVE Fragment_cut_loop(_, _, _, _, _, _, _)

\* A cut that hands back the node it was given
Node_cut_whole(n, from, to) == Ok(n)

\* Node::cut(from..to)
Node_cut(n, from, to) ==
    IF is_text(n)
    THEN IF from = 0 /\ to = n.text.len_utf16 THEN Ok(n)
         ELSE Try(split_at_utf16(n.text.content, from), LAMBDA s1 :
              IF to < from /\ overflow_checks
              THEN Panic("attempt to subtract with overflow")
              ELSE Try(IF to < from THEN Ok(<<s1[2], <<>>>>)
                       ELSE split_at_utf16(s1[2], to - from), LAMBDA s2 :
                   Ok([type |-> "Text", text |-> Text_from(s2[1]),
                       marks |-> n.marks])))
    ELSE IF from = 0 /\ to = content_size(n) THEN Ok(n)
    ELSE Try(Fragment_cut(content_or_empty(n), from, to), LAMBDA c :
             Ok(copy(n, c)))

\* The while loop of Fragment::cut; i is the 0-based child index.
Fragment_cut_loop(f, from, to, pos, i, result, size) ==
    IF ~(pos < to) THEN Ok([inner |-> result, size |-> size])
    ELSE IF i >= Len(f.inner) THEN Panic("index out of bounds")
    ELSE LET child == f.inner[i + 1]
             end == pos + node_size(child)
         IN  IF end > from
             THEN Try(IF pos < from \/ end > to
                      THEN IF is_text(child)
                           THEN Node_cut(child,
                                         IF from > pos THEN from - pos ELSE 0,
                                         Min(child.text.len_utf16, to - pos))
                           ELSE Node_cut(child,
                                         IF from > pos + 1 THEN from - (pos + 1) ELSE 0,
                                         Min(content_size(child), to - (pos + 1)))
                      ELSE Ok(child), LAMBDA new_child :
                  Fragment_cut_loop(f, from, to, end, i + 1,
                                    Append(result, new_child),
                                    size + node_size(new_child)))
             ELSE Fragment_cut_loop(f, from, to, end, i + 1, result, size)

\* Fragment::cut(from..to)
Fragment_cut(f, from, to) ==
    IF from = 0 /\ to = f.size THEN Ok(f)
    ELSE IF to > from THEN Fragment_cut_loop(f, from, to, 0, 0, <<>>, 0)
    ELSE Ok([inner |-> <<>>, size |-> 0])

\* An append that concatenates the children without merging text
append_concat(self, other) ==
    [inner |-> self.inner \o other.inner, size |-> self.size + other.size]

\* Fragment::append
append(self, other) ==
    IF other.inner # <<>>
    THEN IF self.inner # <<>>
         THEN LET last == self.inner[Len(self.inner)]
                  first == other.inner[1]
                  merge == is_text(last) /\ same_markup(last, first)
                  mid == [type |-> "Text",
                          text |-> Text_from(last.text.content \o first.text.content),
                          marks |-> last.marks]
              IN  [inner |-> IF merge
                             THEN SubSeq(self.inner, 1, Len(self.inner) - 1)
                                  \o <<mid>> \o Tail(other.inner)
                             ELSE self.inner \o other.inner,
                   size |-> self.size + other.size]
         ELSE other
    ELSE self

\* A replace_child that keeps the size of the fragment it copies
replace_child_stale(f, index, node) ==
    IF index >= Len(f.inner) THEN Panic("called Option::unwrap() on a None value")
    ELSE Ok([inner |-> [f.inner EXCEPT ![index + 1] = node], size |-> f.size])

\* Fragment::replace_child (0-based index)
replace_child(f, index, node) ==
    IF index > Len(f.inner) THEN Panic("split_at: mid > len")
    ELSE IF index = Len(f.inner) THEN Panic("called Option::unwrap() on a None value")
    ELSE LET current == f.inner[index + 1] IN
         IF current = node THEN Ok(f)
         ELSE Ok([inner |-> [f.inner EXCEPT ![index + 1] = node],
                  size |-> f.size + node_size(node) - node_size(current)])

(***************************************************************************)
(* Resolved positions (resolved_pos.rs).  path[d + 1] is the entry of      *)
(* depth d.                                                                *)
(***************************************************************************)
RangeError(pos) == [kind |-> "RangeError", pos |-> pos]
IndexErr == [kind |-> "Index"]

\* The ? operator on find_index in resolve: From<()> for ResolveErr
TryIndex(r, F(_)) ==
    IF IsOk(r) THEN F(r.val) ELSE IF IsErr(r) THEN Err(IndexErr) ELSE r

\* ResolvedPos::new
ResolvedPos_new(pos, path, parent_offset) ==
    [pos |-> pos, path |-> path, parent_offset |-> parent_offset,
     depth |-> Len(path) - 1]

\* path[depth] is inside the Vec (otherwise the access panics)
in_path(rp, depth) == depth >= 0 /\ depth < Len(rp.path)

\* ResolvedPos::node
ResolvedPos_node(rp, depth) == rp.path[depth + 1].node

\* ResolvedPos::index
ResolvedPos_index(rp, depth) == rp.path[depth + 1].index

\* ResolvedPos::parent
ResolvedPos_parent(rp) == ResolvedPos_node(rp, rp.depth)

\* ResolvedPos::text_offset
text_offset(rp) == rp.pos - rp.path[Len(rp.path)].before

\* ResolvedPos::index_after
index_after(rp, depth) ==
    IF depth = rp.depth /\ text_offset(rp) = 0
    THEN ResolvedPos_index(rp, depth) ELSE ResolvedPos_index(rp, depth) + 1

\* A start that forgets the opening token of the node
ResolvedPos_start_at_token(rp, depth) == IF depth = 0 THEN 0 ELSE rp.path[depth].before

\* ResolvedPos::start
ResolvedPos_start(rp, depth) == IF depth = 0 THEN 0 ELSE rp.path[depth].before + 1

\* ResolvedPos::end
ResolvedPos_end(rp, depth) == ResolvedPos_start(rp, depth) + content_size(ResolvedPos_node(rp, depth))

\* ResolvedPos::before
ResolvedPos_before(rp, depth) ==
    IF depth = 0 THEN None
    ELSE IF depth = rp.depth + 1 THEN Some(rp.pos)
    ELSE Some(rp.path[depth].before)

\* ResolvedPos::after
ResolvedPos_after(rp, depth) ==
    IF depth = 0 THEN None
    ELSE IF depth = rp.depth + 1 THEN Some(rp.pos)
    ELSE Some(rp.path[depth].before + node_size(rp.path[depth + 1].node))

\* ResolvedPos::node_before: Ok(Some(node)) / Ok(None) / a panic of cut
node_before(rp) ==
    LET index == ResolvedPos_index(rp, rp.depth)
        d_off == text_offset(rp)
    IN  IF d_off > 0
        THEN IF index >= child_count(ResolvedPos_parent(rp))
             THEN Panic("index out of bounds")
             ELSE Try(Node_cut(ResolvedPos_parent(rp).content.inner[index + 1],
                               0, d_off), LAMBDA c :
                      Ok(Some(c)))
        ELSE IF index = 0 THEN Ok(None)
        ELSE Ok(Some(ResolvedPos_parent(rp).content.inner[index]))

\* ResolvedPos::node_after
node_after(rp) ==
    LET index == ResolvedPos_index(rp, rp.depth)
        d_off == text_offset(rp)
    IN  IF index = child_count(ResolvedPos_parent(rp)) THEN Ok(None)
        ELSE LET child == ResolvedPos_parent(rp).content.inner[index + 1] IN
             IF d_off > 0
             THEN Try(Node_cut(child, d_off,
                               IF is_text(child) THEN child.text.len_utf16
                               ELSE content_size(child)), LAMBDA c :
                      Ok(Some(c)))
             ELSE Ok(Some(child))

RECURSIVE shared_depth_from(_, _, _)
shared_depth_from(rp, pos, depth) ==
    IF depth < 1 THEN 0
    ELSE IF ResolvedPos_start(rp, depth) <= pos /\ ResolvedPos_end(rp, depth) >= pos THEN depth
    ELSE shared_depth_from(rp, pos, depth - 1)

\* A shared_depth that always answers the root
shared_depth_root(rp, pos) == 0

\* ResolvedPos::shared_depth
shared_depth(rp, pos) == shared_depth_from(rp, pos, rp.depth)

\* The loop of ResolvedPos::resolve
RECURSIVE resolve_loop(_, _, _, _, _)
resolve_loop(pos, path, st, parent_offset, node) ==
    TryIndex(find_index(content_or_empty(node), parent_offset, FALSE), LAMBDA fi :
    LET index == fi.index
        offset == fi.offset
        rem == parent_offset - offset
        path2 == Append(path, [node |-> node, index |-> index,
                               before |-> st + offset])
    IN  IF rem = 0 THEN Ok(ResolvedPos_new(pos, path2, parent_offset))
        ELSE IF index >= child_count(node)
             THEN Panic("called Option::unwrap() on a None value")
        ELSE LET child == node.content.inner[index + 1] IN
             IF is_text(child)
             THEN Ok(ResolvedPos_new(pos, path2, parent_offset))
             ELSE resolve_loop(pos, path2, st + offset + 1, rem - 1, child))

\* ResolvedPos::resolve / Node::resolve
resolve(d, pos) ==
    IF ~has_content(d) THEN Panic("called Option::unwrap() on a None value")
    ELSE IF pos > d.content.size THEN Err(RangeError(pos))
    ELSE resolve_loop(pos, <<>>, 0, pos, d)

(***************************************************************************)
(* The markdown schema: node types and the content-match automaton.        *)
(***************************************************************************)
\* MarkdownNodeType::is_inline
is_inline(t) == t \in {"Text", "Image", "HardBreak"}

\* MarkdownNodeType::is_block
is_block(t) ==
    t \in {"Paragraph", "Blockquote", "Heading", "HorizontalRule", "CodeBlock",
           "OrderedList", "BulletList"}

\* MarkdownNodeType::content_match
content_match(t) ==
    CASE t = "Doc" -> "BlockPlus"
      [] t = "Heading" -> "OrTextImageStar"
      [] t = "CodeBlock" -> "TextStar"
      [] t = "Text" -> "Empty"
      [] t = "Blockquote" -> "BlockPlus"
      [] t = "Paragraph" -> "InlineStar"
      [] t = "BulletList" -> "ListItemPlus"
      [] t = "OrderedList" -> "ListItemPlus"
      [] t = "ListItem" -> "ParagraphBlockStar"
      [] t = "HorizontalRule" -> "Empty"
      [] t = "HardBreak" -> "Empty"
      [] t = "Image" -> "Empty"

\* MarkdownContentMatch::match_type: Some(next state) or None
match_type(m, t) ==
    CASE m = "InlineStar" -> IF is_inline(t) THEN Some("InlineStar") ELSE None
      [] m \in {"BlockPlus", "BlockStar"} ->
            IF is_block(t) THEN Some("BlockStar") ELSE None
      [] m = "OrTextImageStar" ->
            IF t \in {"Text", "Image"} THEN Some("OrTextImageStar") ELSE None
      [] m = "TextStar" -> IF t = "Text" THEN Some("TextStar") ELSE None
      [] m \in {"ListItemPlus", "ListItemStar"} ->
            IF t = "ListItem" THEN Some("ListItemStar") ELSE None
      [] m = "ParagraphBlockStar" ->
            IF t = "Paragraph" THEN Some("BlockStar") ELSE None
      [] m = "Empty" -> None

\* A valid_end that lets every state end
valid_end_always(m) == TRUE

\* MarkdownContentMatch::valid_end
valid_end(m) ==
    m \in {"InlineStar", "BlockStar", "OrTextImageStar", "TextStar",
           "ListItemStar", "Empty"}

\* MarkdownContentMatch::compatible
compatible(m, other) ==
    CASE m = "InlineStar" -> other \in {"InlineStar", "OrTextImageStar", "TextStar"}
      [] m \in {"BlockPlus", "BlockStar"} ->
            other \in {"BlockPlus", "ParagraphBlockStar", "BlockStar"}
      [] m = "OrTextImageStar" ->
            other \in {"InlineStar", "OrTextImageStar", "TextStar"}
      [] m = "TextStar" -> other \in {"InlineStar", "OrTextImageStar", "TextStar"}
      [] m \in {"ListItemPlus", "ListItemStar"} ->
            other \in {"ListItemPlus", "ListItemStar"}
      [] m = "ParagraphBlockStar" -> other \in {"BlockPlus", "ParagraphBlockStar"}
      [] m = "Empty" -> FALSE

\* ContentMatchExt::match_fragment_range over children[i..] (1-based i)
RECURSIVE match_fragment_from(_, _, _)
match_fragment_from(m, inner, i) ==
    IF i > Len(inner) THEN Some(m)
    ELSE LET next == match_type(m, inner[i].type) IN
         IF next = None THEN None ELSE match_fragment_from(next.val, inner, i + 1)

\* ContentMatch::match_fragment
match_fragment(m, f) == match_fragment_from(m, f.inner, 1)

\* MarkdownNodeType::_allow_marks
allow_marks(t) ==
    CASE t \in {"Doc", "Blockquote", "BulletList", "OrderedList", "ListItem"} -> FALSE
      [] t = "CodeBlock" -> FALSE
      [] t \in {"Heading", "Paragraph"} -> TRUE
      [] t \in {"Text", "HorizontalRule", "HardBreak", "Image"} -> TRUE

\* derive(Node): Node::marks is None for every variant
marks(n) == None

\* MarkdownNodeType::compatible_content
compatible_content(t, other) ==
    t = other \/ compatible(content_match(t), content_match(other))

\* MarkdownNodeType::valid_content
valid_content(t, f) ==
    Let(match_fragment(content_match(t), f), LAMBDA result :
    /\ result # None
    /\ valid_end(result.val)
    /\ \A i \in 1..Len(f.inner) :
          ~(marks(f.inner[i]) # None /\ ~allow_marks(t)))

(***************************************************************************)
(* Slices and the replace algorithm (replace.rs, node.rs).                 *)
(***************************************************************************)
\* Slice::new
Slice_new(content, open_start, open_end) ==
    [content |-> content, open_start |-> open_start, open_end |-> open_end]

\* Slice::default
Slice_default == Slice_new(Fragment_EMPTY, 0, 0)

\* ReplaceError
InsertTooDeep == [kind |-> "InsertTooDeep"]
InconsistentOpenDepths(fd, os, td, oe) ==
    [kind |-> "InconsistentOpenDepths", from_depth |-> fd, open_start |-> os,
     to_depth |-> td, open_end |-> oe]
ResolveError(e) == [kind |-> "Resolve", err |-> e]
CannotJoin(t0, t1) == [kind |-> "CannotJoin", t0 |-> t0, t1 |-> t1]
InvalidContent(t) == [kind |-> "InvalidContent", type |-> t]

\* The ? operator on resolve: From<ResolveErr> for ReplaceError and SliceError
TryResolve(r, F(_)) ==
    IF IsOk(r) THEN F(r.val) ELSE IF IsErr(r) THEN Err(ResolveError(r.err)) ELSE r

\* A usize that wrapped below zero (overflow checks off): 2^64 + v, v < 0.
Wrapped(v) == [mod64 |-> v]

\* A slice that forgets which of its nodes are open
Node_slice_closed(n, from, to, include_parents) ==
    IF from = to THEN Ok(Slice_default)
    ELSE
    TryResolve(resolve(n, from), LAMBDA rp_from :
    TryResolve(resolve(n, to), LAMBDA rp_to :
    LET depth == IF include_parents THEN 0 ELSE shared_depth(rp_from, to)
        st == ResolvedPos_start(rp_from, depth)
        node == ResolvedPos_node(rp_from, depth)
    IN  Try(IF has_content(node)
            THEN Fragment_cut(node.content, rp_from.pos - st, rp_to.pos - st)
            ELSE Ok(Fragment_EMPTY), LAMBDA content :
        Ok(Slice_new(content, 0, 0)))))

\* A slice that cuts the content of the root whatever the two positions share
Node_slice_from_root(n, from, to, include_parents) ==
    IF from = to THEN Ok(Slice_default)
    ELSE
    TryResolve(resolve(n, from), LAMBDA rp_from :
    TryResolve(resolve(n, to), LAMBDA rp_to :
    LET depth == IF include_parents THEN 0 ELSE shared_depth(rp_from, to)
    IN  Try(IF has_content(n)
            THEN Fragment_cut(n.content, rp_from.pos, rp_to.pos)
            ELSE Ok(Fragment_EMPTY), LAMBDA content :
        Ok(Slice_new(content, rp_from.depth - depth, rp_to.depth - depth)))))

\* Node::slice(from..to, include_parents)
Node_slice(n, from, to, include_parents) ==
    IF from = to THEN Ok(Slice_default)
    ELSE
    TryResolve(resolve(n, from), LAMBDA rp_from :
    TryResolve(resolve(n, to), LAMBDA rp_to :
    LET depth == IF include_parents THEN 0 ELSE shared_depth(rp_from, to)
        st == ResolvedPos_start(rp_from, depth)
        node == ResolvedPos_node(rp_from, depth)
    IN  Try(IF has_content(node)
            THEN Fragment_cut(node.content, rp_from.pos - st, rp_to.pos - st)
            ELSE Ok(Fragment_EMPTY), LAMBDA content :
        Ok(Slice_new(content, rp_from.depth - depth, rp_to.depth - depth)))))

\* A check_join whose error names the left type first
check_join_swapped(main, sub) ==
    IF compatible_content(sub.type, main.type) THEN Ok(TRUE)
    ELSE Err(CannotJoin(main.type, sub.type))

\* check_join
check_join(main, sub) ==
    IF compatible_content(sub.type, main.type) THEN Ok(TRUE)
    ELSE Err(CannotJoin(sub.type, main.type))

\* A joinable that hands back the node after the seam
joinable_right(rp_before, rp_after, depth) ==
    IF ~in_path(rp_before, depth) \/ ~in_path(rp_after, depth)
    THEN Panic("index out of bounds")
    ELSE Try(check_join(ResolvedPos_node(rp_before, depth),
                        ResolvedPos_node(rp_after, depth)), LAMBDA joined :
             Ok(ResolvedPos_node(rp_after, depth)))

\* joinable: Ok(rp_before.node(depth)), CannotJoin, or a panic of path[depth]
joinable(rp_before, rp_after, depth) ==
    IF ~in_path(rp_before, depth) \/ ~in_path(rp_after, depth)
    THEN Panic("index out of bounds")
    ELSE LET node == ResolvedPos_node(rp_before, depth) IN
         Try(check_join(node, ResolvedPos_node(rp_after, depth)), LAMBDA joined :
             Ok(node))

\* An add_node that pushes the child without merging text
add_node_push(child, target) == Append(target, child)

\* add_node
add_node(child, target) ==
    IF target # <<>> /\ is_text(child) /\ same_markup(child, target[Len(target)])
    THEN [target EXCEPT ![Len(target)] =
              [type |-> "Text", marks |-> child.marks,
               text |-> Text_join(target[Len(target)].text, child.text)]]
    ELSE Append(target, child)

\* EitherOrBoth: Range::Left(a), Range::Right(b), Range::Both(a, b)
Range_Left(a) == [left |-> Some(a), right |-> None]
Range_Right(b) == [left |-> None, right |-> Some(b)]
Range_Both(a, b) == [left |-> Some(a), right |-> Some(b)]

\* The for loop of add_range: children i..end_index-1 (0-based) of node
RECURSIVE add_range_loop(_, _, _, _)
add_range_loop(node, i, end_index, target) ==
    IF i >= end_index THEN Ok(target)
    ELSE IF i >= child_count(node) THEN Panic("index out of bounds")
    ELSE add_range_loop(node, i + 1, end_index,
                        add_node(node.content.inner[i + 1], target))

\* add_range: Ok(target') or a panic
add_range(range, depth, target) ==
    LET rl == IF range.right # None THEN range.right.val ELSE range.left.val IN
    IF ~in_path(rl, depth) THEN Panic("index out of bounds")
    ELSE IF range.left # None /\ ~in_path(range.left.val, depth)
    THEN Panic("index out of bounds")
    ELSE
    LET node == ResolvedPos_node(rl, depth)
        end_index == IF range.right # None
                     THEN ResolvedPos_index(range.right.val, depth)
                     ELSE child_count(node)
    IN
    \* first: <<start_index, target>> after the `if let Some(rp_start)` block
    Try(IF range.left = None THEN Ok(<<0, target>>)
        ELSE LET rp_start == range.left.val
                 si == ResolvedPos_index(rp_start, depth)
             IN  IF rp_start.depth > depth THEN Ok(<<si + 1, target>>)
                 ELSE IF text_offset(rp_start) > 0
                 THEN Try(node_after(rp_start), LAMBDA na :
                          IF na = None
                          THEN Panic("called Option::unwrap() on a None value")
                          ELSE Ok(<<si + 1, add_node(na.val, target)>>))
                 ELSE Ok(<<si, target>>), LAMBDA first :
    Try(add_range_loop(node, first[1], end_index, first[2]), LAMBDA mid :
    IF range.right # None /\ range.right.val.depth = depth
       /\ text_offset(range.right.val) > 0
    THEN Try(node_before(range.right.val), LAMBDA nb :
             IF nb = None
             THEN Panic("called Option::unwrap() on a None value")
             ELSE Ok(add_node(nb.val, mid)))
    ELSE Ok(mid)))

\* A close that rebuilds the node without looking at its content
close_unchecked(node, content) == Ok(copy(node, content))

\* close
close(node, content) ==
    IF valid_content(node.type, content) THEN Ok(copy(node, content))
    ELSE Err(InvalidContent(node.type))

\* A replace_two_way that leaves out what follows rp_to at each depth
RECURSIVE replace_two_way_no_tail(_, _, _)
replace_two_way_no_tail(rp_from, rp_to, depth) ==
    Try(add_range(Range_Right(rp_from), depth, <<>>), LAMBDA c1 :
    Try(IF rp_from.depth > depth
        THEN Try(joinable(rp_from, rp_to, depth + 1), LAMBDA type :
             Try(replace_two_way_no_tail(rp_from, rp_to, depth + 1), LAMBDA inner :
             Try(close(type, inner), LAMBDA child :
             Ok(add_node(child, c1)))))
        ELSE Ok(c1), LAMBDA c2 :
    Ok(Fragment_from(c2))))

\* replace_two_way: Ok(fragment), Err(ReplaceError) or a panic
RECURSIVE replace_two_way(_, _, _)
replace_two_way(rp_from, rp_to, depth) ==
    Try(add_range(Range_Right(rp_from), depth, <<>>), LAMBDA c1 :
    Try(IF rp_from.depth > depth
        THEN Try(joinable(rp_from, rp_to, depth + 1), LAMBDA type :
             Try(replace_two_way(rp_from, rp_to, depth + 1), LAMBDA inner :
             Try(close(type, inner), LAMBDA child :
             Ok(add_node(child, c1)))))
        ELSE Ok(c1), LAMBDA c2 :
    Try(add_range(Range_Left(rp_to), depth, c2), LAMBDA c3 :
    Ok(Fragment_from(c3)))))

\* A closed half that is never added to the content
close_half_dropped(open, a, b, depth, content) == Ok(content)

\* One closed half of replace_three_way's second match arm:
\* close(open, replace_two_way(a, b, depth + 1)) added to content.
close_half(open, a, b, depth, content) ==
    Try(replace_two_way(a, b, depth + 1), LAMBDA inner :
    Try(close(open, inner), LAMBDA closed :
    Ok(add_node(closed, content))))

\* replace_three_way
RECURSIVE replace_three_way(_, _, _, _, _)
replace_three_way(rp_from, rp_start, rp_end, rp_to, depth) ==
    Try(IF rp_from.depth > depth
        THEN Try(joinable(rp_from, rp_start, depth + 1), LAMBDA j : Ok(Some(j)))
        ELSE Ok(None), LAMBDA os :
    Try(IF rp_to.depth > depth
        THEN Try(joinable(rp_end, rp_to, depth + 1), LAMBDA j : Ok(Some(j)))
        ELSE Ok(None), LAMBDA oe :
    Try(add_range(Range_Right(rp_from), depth, <<>>), LAMBDA c1 :
    Try(IF os # None /\ oe # None
           /\ ResolvedPos_index(rp_start, depth) = ResolvedPos_index(rp_end, depth)
        THEN Try(check_join(os.val, oe.val), LAMBDA joined :
             Try(replace_three_way(rp_from, rp_start, rp_end, rp_to, depth + 1),
                 LAMBDA inner :
             Try(close(os.val, inner), LAMBDA closed :
             Ok(add_node(closed, c1)))))
        ELSE Try(IF os # None
                 THEN close_half(os.val, rp_from, rp_start, depth, c1)
                 ELSE Ok(c1), LAMBDA a :
             Try(add_range(Range_Both(rp_start, rp_end), depth, a), LAMBDA b :
             IF oe # None
             THEN close_half(oe.val, rp_end, rp_to, depth, b)
             ELSE Ok(b))), LAMBDA c2 :
    Try(add_range(Range_Left(rp_to), depth, c2), LAMBDA c3 :
    Ok(Fragment_from(c3)))))))

\* The `for i in (0..extra).rev()` loop of prepare_slice_for_replace
RECURSIVE wrap_along(_, _, _)
wrap_along(node, rp_along, i) ==
    IF i < 0 THEN node
    ELSE wrap_along(copy(ResolvedPos_node(rp_along, i), Fragment_from(<<node>>)),
                    rp_along, i - 1)

\* prepare_slice_for_replace: node, start, end; a negative end stands for the
\* wrapped usize 2^64 + end
prepare_slice_for_replace(slice, rp_along) ==
    LET extra == rp_along.depth - slice.open_start IN
    Let(wrap_along(copy(ResolvedPos_node(rp_along, extra), slice.content),
                   rp_along, extra - 1), LAMBDA node :
    Let(content_size(node) - slice.open_end - extra, LAMBDA e :
    IF e < 0 /\ overflow_checks
    THEN Panic("attempt to subtract with overflow")
    ELSE Ok([node |-> node, start |-> slice.open_start + extra, end |-> e])))

\* replace_outer
RECURSIVE replace_outer(_, _, _, _)
replace_outer(rp_from, rp_to, slice, depth) ==
    LET index == ResolvedPos_index(rp_from, depth)
        node == ResolvedPos_node(rp_from, depth)
    IN
    IF ~in_path(rp_to, depth) THEN Panic("index out of bounds")
    ELSE IF index = ResolvedPos_index(rp_to, depth)
            /\ depth < rp_from.depth - slice.open_start
    THEN Try(replace_outer(rp_from, rp_to, slice, depth + 1), LAMBDA inner :
         Try(replace_child(content_or_empty(node), index, inner), LAMBDA c :
         Ok(copy(node, c))))
    ELSE IF slice.content.size = 0
    THEN Try(replace_two_way(rp_from, rp_to, depth), LAMBDA content :
         close(node, content))
    ELSE IF slice.open_start = 0 /\ slice.open_end = 0
            /\ rp_from.depth = depth /\ rp_to.depth = depth
    THEN LET par == ResolvedPos_parent(rp_from)
             content == content_or_empty(par)
         IN  Try(Fragment_cut(content, 0, rp_from.parent_offset), LAMBDA l :
             Try(Fragment_cut(content, rp_to.parent_offset, content.size), LAMBDA r :
             close(par, append(append(l, slice.content), r))))
    ELSE Try(prepare_slice_for_replace(slice, rp_from), LAMBDA prep :
         TryResolve(resolve(prep.node, prep.start), LAMBDA rp_start :
         IF prep.end < 0
         THEN Err(ResolveError(RangeError(Wrapped(prep.end))))
         ELSE
         TryResolve(resolve(prep.node, prep.end), LAMBDA rp_end :
         Try(replace_three_way(rp_from, rp_start, rp_end, rp_to, depth),
             LAMBDA content :
         close(node, content)))))

\* A replace that compares the depth differences before it looks at open_start
replace_depths_first(rp_from, rp_to, slice) ==
    IF rp_from.depth - slice.open_start # rp_to.depth - slice.open_end
    THEN Err(InconsistentOpenDepths(rp_from.depth, slice.open_start,
                                    rp_to.depth, slice.open_end))
    ELSE IF slice.open_start > rp_from.depth THEN Err(InsertTooDeep)
    ELSE replace_outer(rp_from, rp_to, slice, 0)

\* replace (replace.rs): the open-depth checks, then replace_outer
replace(rp_from, rp_to, slice) ==
    IF slice.open_start > rp_from.depth THEN Err(InsertTooDeep)
    ELSE IF slice.open_end > rp_to.depth /\ overflow_checks
    THEN Panic("attempt to subtract with overflow")
    ELSE IF rp_from.depth - slice.open_start # rp_to.depth - slice.open_end
    THEN Err(InconsistentOpenDepths(rp_from.depth, slice.open_start,
                                    rp_to.depth, slice.open_end))
    ELSE replace_outer(rp_from, rp_to, slice, 0)

\* Node::replace(from..to, slice)
Node_replace(n, from, to, slice) ==
    IF ~(to >= from) THEN Panic("assertion failed: to >= from")
    ELSE TryResolve(resolve(n, from), LAMBDA rp_from :
         TryResolve(resolve(n, to), LAMBDA rp_to :
         replace(rp_from, rp_to, slice)))

(***************************************************************************)
(* The documents the operations are applied to.  Each shape of the         *)
(* repository's tests is instantiated with texts of 1..MaxTextLen          *)
(* characters.                                                             *)
(***************************************************************************)
RECURSIVE Rep(_, _)
Rep(c, n) == IF n = 0 THEN <<>> ELSE <<c>> \o Rep(c, n - 1)

Shapes(n) ==
    LET A == text(Rep("a", n))
        B == text(Rep("b", n))
    IN  { docn(<<p(<<A>>), p(<<B>>)>>),
          docn(<<blockquote(<<blockquote(<<p(<<A>>), p(<<B>>)>>)>>)>>),
          docn(<<h1(<<A>>)>>),
          docn(<<p(<<A, strong(Rep("b", n))>>)>>),
          docn(<<code_block("", <<A>>), hr, p(<<em(Rep("b", n))>>)>>) }

\* Documents of the tests that are not scaled: an empty document, an empty
\* paragraph, a block quote next to a list, a block quote holding text (not
\* valid), and a text with an astral character (a surrogate pair in UTF-16).
doc_empty == docn(<<>>)
doc_p_empty == docn(<<p(<<>>)>>)
doc_quote_list ==
    docn(<<blockquote(<<p(<<text(<<"a">>)>>)>>),
           blockquote(<<ul(<<li(<<p(<<text(<<"b">>)>>)>>)>>)>>)>>)
doc_quote_text == docn(<<blockquote(<<text(<<"h", "i">>)>>)>>)
doc_astral == docn(<<p(<<text(<<"a", "U+1F60A">>)>>)>>)

Special == {doc_empty, doc_p_empty, doc_quote_list, doc_quote_text, doc_astral}

\* The documents of rejects_unjoinable_content and rejects_an_unjoinable_delete
doc_list == docn(<<ul(<<li(<<p(<<text(<<"a">>)>>)>>)>>)>>)
doc_quote_ul ==
    docn(<<blockquote(<<p(<<text(<<"a">>)>>)>>), ul(<<li(<<p(<<text(<<"b">>)>>)>>)>>)>>)

Docs == UNION {Shapes(n) : n \in 1..MaxTextLen} \cup Special \cup {doc_list, doc_quote_ul}

Positions(d) == 0..(content_size(d) + MaxOver)

\* The ranges slices are cut from: <<source document, from, to>>
SliceSources ==
    LET D1 == docn(<<p(<<text(<<"a">>)>>), p(<<text(<<"b">>)>>)>>)
        D2 == docn(<<h1(<<text(<<"a">>)>>)>>)
        D3 == docn(<<blockquote(<<blockquote(<<p(<<text(<<"a">>)>>), p(<<text(<<"b">>)>>)>>)>>)>>)
        D5 == docn(<<p(<<text(<<"a">>), strong(<<"b">>)>>)>>)
        D6 == docn(<<code_block("", <<text(<<"a">>)>>), hr, p(<<em(<<"b">>)>>)>>)
    IN  { <<D1, 1, 2>>, <<D1, 2, 4>>, <<D1, 1, 5>>, <<D1, 0, 3>>, <<D1, 0, 2>>, <<D1, 1, 3>>, <<D1, 2, 3>>,
          <<D2, 0, 2>>, <<D2, 1, 3>>, <<D2, 0, 3>>,
          <<D3, 1, 4>>, <<D3, 4, 9>>, <<D3, 0, 4>>,
          <<doc_quote_list, 4, 7>>, <<doc_quote_list, 3, 10>>,
          <<doc_quote_list, 7, 12>>, <<doc_quote_list, 5, 14>>,
          <<D5, 1, 3>>, <<D5, 2, 3>>,
          <<D6, 3, 4>>, <<D6, 2, 6>>,
          <<doc_astral, 1, 4>>, <<doc_astral, 2, 4>>,
          <<doc_quote_text, 3, 4>>,
          <<doc_p_empty, 0, 2>>, <<doc_p_empty, 0, 1>> }

\* Every slice Node::slice cuts out of these
Slices == { Node_slice(src[1], src[2], src[3], FALSE).val : src \in SliceSources }

(***************************************************************************)
(* State machine: a document is built, then one edit is applied to it.     *)
(*   doc              the document the operation is applied to             *)
(*   op               the operation that has run ("init" before any)       *)
(*   req              its arguments                                        *)
(*   res              its outcome: Ok(value), Err(error) or Panic(message) *)
(*   overflow_checks  build profile: arithmetic overflow panics (debug) or *)
(*                    wraps (release)                                      *)
(*   steps            how many results have been taken as the next         *)
(*                    document                                             *)
(***************************************************************************)
NoReq == [from |-> 0, to |-> 0, slice |-> Slice_default, src |-> None]
NoRes == [tag |-> "None"]

Init ==
    /\ doc \in Docs
    /\ op = "init"
    /\ req = NoReq
    /\ res = NoRes
    /\ overflow_checks \in BOOLEAN
    /\ steps = 0

\* doc.replace(from..to, slice), the slice cut out of the document src[1] by
\* Node::slice(src[2]..src[3])
Replace(from, to, src) ==
    /\ op = "init"
    /\ op' = "replace"
    /\ req' = [from |-> from, to |-> to,
               slice |-> Node_slice(src[1], src[2], src[3], FALSE).val,
               src |-> Some(src[1])]
    /\ res' = Node_replace(doc, from, to, req'.slice)
    /\ UNCHANGED <<doc, overflow_checks, steps>>

\* doc.replace(from..to, Slice::default()): a deletion
Delete(from, to) ==
    /\ op = "init"
    /\ op' = "replace"
    /\ req' = [from |-> from, to |-> to, slice |-> Slice_default, src |-> None]
    /\ res' = Node_replace(doc, from, to, Slice_default)
    /\ UNCHANGED <<doc, overflow_checks, steps>>

Next ==
    \/ \E from \in Positions(doc), to \in Positions(doc), src \in SliceSources :
          from <= to /\ Replace(from, to, src)
    \/ \E from \in Positions(doc), to \in Positions(doc) :
          from <= to /\ Delete(from, to)

Spec == Init /\ [][Next]_vars

(***************************************************************************)
(* Content validity of the documents replace returns.                      *)
(***************************************************************************)
\* Every node of the tree holds content its type allows
RECURSIVE AllValid(_)
AllValid(n) ==
    has_content(n) =>
        /\ valid_content(n.type, n.content)
        /\ \A i \in 1..Len(n.content.inner) : AllValid(n.content.inner[i])

\* The depth at which replace_outer stops descending and starts rebuilding
RECURSIVE rebuild_depth(_, _, _, _)
rebuild_depth(rp_from, rp_to, slice, depth) ==
    IF /\ ResolvedPos_index(rp_from, depth) = ResolvedPos_index(rp_to, depth)
       /\ depth < rp_from.depth - slice.open_start
    THEN rebuild_depth(rp_from, rp_to, slice, depth + 1)
    ELSE depth

\* The types of the nodes around a resolved position
SpineTypes(rp) == {ResolvedPos_node(rp, k).type : k \in 0..rp.depth}

\* The types of the nodes of a tree
RECURSIVE TypesIn(_)
TypesIn(n) ==
    {n.type} \cup
    (IF has_content(n)
     THEN UNION {TypesIn(n.content.inner[i]) : i \in 1..Len(n.content.inner)}
     ELSE {})

\* A replace has run whose endpoints resolved
Replaced ==
    /\ op = "replace"
    /\ req.from <= req.to
    /\ req.to <= content_size(doc)

\* The position in the result at which the replaced range ends
EndOfInsert == content_size(res.val) - (content_size(doc) - req.to)

\* The nodes around the position pos of the result, from the depth the
\* rebuild started at, all hold valid content
RebuiltValid(pos, depth) ==
    LET rp == resolve(res.val, pos).val IN
    \A k \in depth..rp.depth :
        valid_content(ResolvedPos_node(rp, k).type, ResolvedPos_node(rp, k).content)

\* C1: a successful replace returns a document whose rebuilt nodes (those
\* around the two ends of the inserted range, from the depth at which the
\* rebuild started) hold content their type allows; an InvalidContent error
\* carries the type of a node around the replaced range or of the slice;
\* replacing 0..0 of the empty document by text fails with
\* InvalidContent(Doc); and a valid document with a slice of a valid document
\* gives a valid document.
C1_ValidContent ==
    Replaced =>
        LET rp_from == resolve(doc, req.from).val
            rp_to == resolve(doc, req.to).val
            depth == rebuild_depth(rp_from, rp_to, req.slice, 0)
        IN  /\ IsOk(res) =>
                /\ RebuiltValid(req.from, depth)
                /\ RebuiltValid(EndOfInsert, depth)
            /\ (IsOk(res) /\ AllValid(doc) /\ req.src # None /\ AllValid(req.src.val))
                  => AllValid(res.val)
            /\ (IsOk(res) /\ AllValid(doc) /\ req.src = None) => AllValid(res.val)
            /\ (IsErr(res) /\ res.err.kind = "InvalidContent") =>
                  res.err.type \in SpineTypes(rp_from) \cup SpineTypes(rp_to)
                      \cup UNION {TypesIn(req.slice.content.inner[i]) :
                                    i \in 1..Len(req.slice.content.inner)}
            /\ (doc = doc_empty /\ req.slice.content.size > 0
                  /\ \A i \in 1..Len(req.slice.content.inner) :
                        is_text(req.slice.content.inner[i]))
                  => res = Err(InvalidContent("Doc"))

\* C1 witness: a replace of a valid document by a slice of a valid document
\* succeeded after rebuilding nodes at two depths or more
C1_Witness ==
    /\ Replaced
    /\ IsOk(res)
    /\ AllValid(doc)
    /\ req.src # None
    /\ AllValid(req.src.val)
    /\ req.slice.open_start > 0
    /\ resolve(doc, req.from).val.depth
          > rebuild_depth(resolve(doc, req.from).val, resolve(doc, req.to).val, req.slice, 0)
    /\ res.val # doc

(***************************************************************************)
(* Replacing a range by its own slice.                                     *)
(***************************************************************************)
\* doc.replace(a..b, doc.slice(a..b)?): the slice is cut first; a panic or an
\* error of Node::slice ends the operation
ReplaceOwn(a, b) ==
    /\ op = "init"
    /\ op' = "replace_own"
    /\ \E slice \in {Node_slice(doc, a, b, FALSE)} :
          /\ req' = [from |-> a, to |-> b,
                     slice |-> IF IsOk(slice) THEN slice.val ELSE Slice_default,
                     src |-> Some(doc)]
          /\ res' = IF IsOk(slice) THEN Node_replace(doc, a, b, slice.val) ELSE slice
    /\ UNCHANGED <<doc, overflow_checks, steps>>

NextOwn == \E a \in Positions(doc), b \in Positions(doc) : a <= b /\ ReplaceOwn(a, b)

SpecOwn == Init /\ [][NextOwn]_vars

\* No two adjacent text nodes of the tree carry the same marks
RECURSIVE Normalized(_)
Normalized(n) ==
    has_content(n) =>
        LET c == n.content.inner IN
        /\ \A i \in 1..(Len(c) - 1) :
              ~(is_text(c[i]) /\ is_text(c[i + 1]) /\ c[i].marks = c[i + 1].marks)
        /\ \A i \in 1..Len(c) : Normalized(c[i])

\* The UTF-16 offsets of a text at which a character starts or the text ends
Boundaries(s) == {encode_utf16_count(SubSeq(s, 1, k)) : k \in 0..Len(s)}

\* The position falls between the two code units of a surrogate pair
InsidePair(d, pos) ==
    LET rp == resolve(d, pos).val
        par == ResolvedPos_parent(rp)
        off == text_offset(rp)
    IN  /\ off > 0
        /\ off \notin Boundaries(par.content.inner[ResolvedPos_index(rp, rp.depth) + 1].text.content)

\* A range of the document has been replaced by its own slice
OwnReplaced ==
    /\ op = "replace_own"
    /\ req.to <= content_size(doc)
    /\ AllValid(doc)
    /\ Normalized(doc)

\* C2 as stated: for a valid document and all a <= b <= size, replacing a..b
\* by the slice a..b of the same document returns the document unchanged.
C2_Original == OwnReplaced => res = Ok(doc)

\* C2: for a valid document and all a <= b <= size neither of which falls
\* inside a surrogate pair, replacing a..b by the slice a..b of the same
\* document returns the document unchanged.
C2_Identity ==
    (OwnReplaced /\ ~InsidePair(doc, req.from) /\ ~InsidePair(doc, req.to))
        => res = Ok(doc)

\* C2 witness: the identity held for a range that starts and ends inside
\* different nodes of a document with an astral character or nested blocks
C2_Witness ==
    /\ OwnReplaced
    /\ ~InsidePair(doc, req.from) /\ ~InsidePair(doc, req.to)
    /\ req.from < req.to
    /\ req.slice.open_start > 0
    /\ req.slice.open_end > req.slice.open_start
    /\ res = Ok(doc)

(***************************************************************************)
(* Replace with slices built by Slice::new, whose open depths need not fit *)
(* their content, over any pair of positions.                              *)
(***************************************************************************)
RawDocs == Shapes(1) \cup Special

RawContents ==
    { Fragment_EMPTY,
      Fragment_from(<<text(<<"x">>)>>),
      Fragment_from(<<p(<<text(<<"x">>)>>), p(<<text(<<"y">>)>>)>>),
      Fragment_from(<<blockquote(<<p(<<text(<<"x">>)>>)>>)>>),
      Fragment_from(<<ul(<<li(<<p(<<text(<<"x">>)>>)>>)>>)>>) }

InitRaw ==
    /\ doc \in RawDocs
    /\ op = "init"
    /\ req = NoReq
    /\ res = NoRes
    /\ overflow_checks \in BOOLEAN
    /\ steps = 0

\* doc.replace(from..to, Slice::new(content, open_start, open_end))
ReplaceRaw(from, to, content, open_start, open_end) ==
    /\ op = "init"
    /\ op' = "replace_raw"
    /\ req' = [from |-> from, to |-> to,
               slice |-> Slice_new(content, open_start, open_end), src |-> None]
    /\ res' = Node_replace(doc, from, to, req'.slice)
    /\ UNCHANGED <<doc, overflow_checks, steps>>

NextRaw ==
    \E from \in Positions(doc), to \in Positions(doc), content \in RawContents,
       open_start \in 0..MaxOpen, open_end \in 0..MaxOpen :
        ReplaceRaw(from, to, content, open_start, open_end)

SpecRaw == InitRaw /\ [][NextRaw]_vars

\* A replace has run whose range is ordered and whose endpoints resolved
RawResolved ==
    /\ op = "replace_raw"
    /\ req.from <= req.to
    /\ req.to <= content_size(doc)

\* C3: once both endpoints resolved, replace fails with InsertTooDeep exactly
\* when open_start > rp_from.depth; otherwise, for open_end <= rp_to.depth,
\* it fails with InconsistentOpenDepths carrying the four depths exactly when
\* rp_from.depth - open_start differs from rp_to.depth - open_end; so no
\* CannotJoin or InvalidContent is returned when a depth check fails.
C3_OpenDepths ==
    RawResolved =>
        LET fd == resolve(doc, req.from).val.depth
            td == resolve(doc, req.to).val.depth
            os == req.slice.open_start
            oe == req.slice.open_end
        IN  /\ (res = Err(InsertTooDeep)) <=> (os > fd)
            /\ (os <= fd /\ oe <= td) =>
                  ((res = Err(InconsistentOpenDepths(fd, os, td, oe))) <=> (fd - os # td - oe))
            /\ (IsErr(res) /\ res.err.kind \in {"CannotJoin", "InvalidContent"}) =>
                  (os <= fd /\ fd - os = td - oe)

\* C3 witness: open_start fits, the depths differ, and the seam nodes could
\* not have been joined (a paragraph slice between a block quote and a list)
C3_Witness ==
    /\ RawResolved
    /\ doc = doc_quote_list
    /\ req.from = 5 /\ req.to = 6
    /\ req.slice.open_start = 0 /\ req.slice.open_end = 0
    /\ res = Err(InconsistentOpenDepths(0, 0, 1, 0))

(***************************************************************************)
(* The seams of a replace: the nodes that are joined across the start and  *)
(* the end of the replaced range.                                          *)
(***************************************************************************)
\* The open-depth checks of replace pass
DepthsFit ==
    LET fd == resolve(doc, req.from).val.depth
        td == resolve(doc, req.to).val.depth
    IN  /\ req.slice.open_start <= fd
        /\ req.slice.open_end <= td
        /\ fd - req.slice.open_start = td - req.slice.open_end

\* The pairs <<depth, seam, left node, right node>> joined by the replace, the
\* seam being 1 for the start of the range (or a deletion) and 2 for its end
SeamPairs ==
    LET rp_from == resolve(doc, req.from).val
        rp_to == resolve(doc, req.to).val
        slice == req.slice
        depth == rebuild_depth(rp_from, rp_to, slice, 0)
    IN  IF slice.content.size = 0
        THEN { <<k, 1, ResolvedPos_node(rp_from, k), ResolvedPos_node(rp_to, k)>> :
                 k \in (depth + 1)..rp_from.depth }
        ELSE IF /\ slice.open_start = 0 /\ slice.open_end = 0
                /\ rp_from.depth = depth /\ rp_to.depth = depth
        THEN {}
        ELSE LET prep == prepare_slice_for_replace(slice, rp_from).val
                 rp_start == resolve(prep.node, prep.start).val
                 rp_end == resolve(prep.node, prep.end).val
             IN  { <<k, 1, ResolvedPos_node(rp_from, k), ResolvedPos_node(rp_start, k)>> :
                     k \in (depth + 1)..rp_from.depth }
                 \cup
                 { <<k, 2, ResolvedPos_node(rp_end, k), ResolvedPos_node(rp_to, k)>> :
                     k \in (depth + 1)..rp_to.depth }

\* The content of the right node cannot continue the content of the left one
Unjoinable(pair) == ~compatible_content(pair[4].type, pair[3].type)

FirstUnjoinable ==
    { pair \in SeamPairs :
        /\ Unjoinable(pair)
        /\ \A other \in SeamPairs : Unjoinable(other) => pair[1] <= other[1] }

SameKind(a, b) == a.type = b.type /\ a.attrs = b.attrs

\* The resolved end of the slice as replace_outer prepares it
PreparedEnd ==
    LET prep == prepare_slice_for_replace(req.slice, resolve(doc, req.from).val).val
    IN  resolve(prep.node, prep.end).val

\* The node of depth k around the end of the inserted range is not the node
\* around its start
SeparateEnd(k) ==
    LET new_from == resolve(res.val, req.from).val
        new_to == resolve(res.val, EndOfInsert).val
    IN  \/ k > new_from.depth
        \/ ResolvedPos_start(new_from, k) # ResolvedPos_start(new_to, k)

EditDocs ==
    { p(<<text(<<"a">>), strong(<<"b">>)>>),
      p(<<text(<<"a", "U+1F60A">>)>>),
      docn(<<p(<<text(<<"a">>)>>), hr, p(<<text(<<"b">>)>>)>>),
      docn(<<blockquote(<<p(<<text(<<"a">>)>>)>>), p(<<>>)>>) }

EditVecs ==
    { <<>>,
      <<text(<<"b">>)>>,
      <<strong(<<"b">>), text(<<"U+1F60A">>)>>,
      <<text(<<"b">>), text(<<"c">>)>>,
      <<p(<<text(<<"b">>)>>), hr>> }

EditNodes == {text(<<"c">>), strong(<<"U+1F60A">>), hr, p(<<text(<<"c">>)>>)}

EditSources == {src \in SliceSources : src[1] = doc_astral \/ src[2] = 2}

InitEdit ==
    /\ doc \in EditDocs
    /\ op = "init"
    /\ req = NoReq
    /\ res = NoRes
    /\ overflow_checks \in BOOLEAN
    /\ steps = 0

\* Fragment::from(vec)
FromVec(v) ==
    /\ op = "init"
    /\ op' = "from_vec"
    /\ req' = [vec |-> v]
    /\ res' = Ok(Fragment_from(v))
    /\ UNCHANGED <<doc, overflow_checks, steps>>

\* doc.content.append(Fragment::from(v))
AppendOp(v) ==
    /\ op = "init"
    /\ op' = "append"
    /\ req' = [other |-> Fragment_from(v)]
    /\ res' = Ok(append(content_or_empty(doc), Fragment_from(v)))
    /\ UNCHANGED <<doc, overflow_checks, steps>>

\* doc.content.cut(from..to)
CutOp(from, to) ==
    /\ op = "init"
    /\ op' = "cut"
    /\ req' = [from |-> from, to |-> to]
    /\ res' = Fragment_cut(content_or_empty(doc), from, to)
    /\ UNCHANGED <<doc, overflow_checks, steps>>

\* doc.content.replace_child(index, node)
ReplaceChildOp(index, node) ==
    /\ op = "init"
    /\ op' = "replace_child"
    /\ req' = [index |-> index, node |-> node]
    /\ res' = replace_child(content_or_empty(doc), index, node)
    /\ UNCHANGED <<doc, overflow_checks, steps>>

\* The caller goes on with the result: the node replace returned, or the
\* document with the fragment a fragment operation returned
Continue ==
    /\ op # "init"
    /\ IsOk(res)
    /\ steps < MaxSteps
    /\ doc' = IF op = "replace" THEN res.val ELSE copy(doc, res.val)
    /\ op' = "init"
    /\ req' = NoReq
    /\ res' = NoRes
    /\ steps' = steps + 1
    /\ UNCHANGED overflow_checks

NextEdit ==
    \/ \E v \in EditVecs : FromVec(v)
    \/ \E v \in EditVecs : AppendOp(v)
    \/ \E from \in Positions(doc), to \in Positions(doc) : CutOp(from, to)
    \/ \E index \in 0..child_count(doc), node \in EditNodes : ReplaceChildOp(index, node)
    \/ \E from \in Positions(doc), to \in Positions(doc), src \in EditSources :
          from <= to /\ Replace(from, to, src)
    \/ \E from \in Positions(doc), to \in Positions(doc) :
          from <= to /\ Delete(from, to)
    \/ Continue

SpecEdit == InitEdit /\ [][NextEdit]_vars

(***************************************************************************)
(* Merged text.                                                            *)
(***************************************************************************)
\* No two adjacent nodes of the sequence are texts with the same marks
NoAdjacentText(v) ==
    \A i \in 1..(Len(v) - 1) :
        ~(is_text(v[i]) /\ is_text(v[i + 1]) /\ v[i].marks = v[i + 1].marks)

\* The characters of the texts of a sequence of nodes, in document order
RECURSIVE TextOf(_)
TextOf(v) ==
    IF v = <<>> THEN <<>>
    ELSE (IF is_text(v[1]) THEN v[1].text.content
          ELSE IF has_content(v[1]) THEN TextOf(v[1].content.inner)
          ELSE <<>>) \o TextOf(Tail(v))

\* The cached length of every text of the tree is its UTF-16 length
RECURSIVE TextLengths(_)
TextLengths(n) ==
    IF is_text(n) THEN n.text.len_utf16 = encode_utf16_count(n.text.content)
    ELSE has_content(n) => \A i \in 1..Len(n.content.inner) : TextLengths(n.content.inner[i])

\* C6: Fragment::append of two fragments without adjacent same-mark texts
\* returns a fragment without them, and when the last child of the first and
\* the first child of the second are texts with the same marks the result
\* holds one text in their place, its string the concatenation and its
\* UTF-16 length the sum; a successful replace of a document without
\* adjacent same-mark texts by such a slice returns a document without them,
\* whose texts are the text before the range, the text of the slice and the
\* text after the range, each text with the UTF-16 length of its string.
C6_TextMerged ==
    /\ op = "append" =>
          LET self == content_or_empty(doc).inner
              other == req.other.inner
              out == res.val.inner
          IN  /\ (NoAdjacentText(self) /\ NoAdjacentText(other)) => NoAdjacentText(out)
              /\ (/\ self # <<>> /\ other # <<>>
                  /\ is_text(self[Len(self)]) /\ is_text(other[1])
                  /\ self[Len(self)].marks = other[1].marks) =>
                    /\ Len(out) = Len(self) + Len(other) - 1
                    /\ out[Len(self)] =
                          [type |-> "Text",
                           text |-> [content |-> self[Len(self)].text.content
                                                    \o other[1].text.content,
                                     len_utf16 |-> self[Len(self)].text.len_utf16
                                                      + other[1].text.len_utf16],
                           marks |-> other[1].marks]
                    /\ SubSeq(out, 1, Len(self) - 1) = SubSeq(self, 1, Len(self) - 1)
                    /\ SubSeq(out, Len(self) + 1, Len(out)) = Tail(other)
    /\ (op = "replace" /\ IsOk(res)) =>
          LET before == Fragment_cut(content_or_empty(doc), 0, req.from)
              after == Fragment_cut(content_or_empty(doc), req.to, content_size(doc))
          IN  /\ (Normalized(doc) /\ Normalized(copy(doc, req.slice.content)))
                    => Normalized(res.val)
              /\ TextLengths(doc) => TextLengths(res.val)
              /\ (IsOk(before) /\ IsOk(after)) =>
                    TextOf(<<res.val>>) = TextOf(before.val.inner)
                                            \o TextOf(req.slice.content.inner)
                                            \o TextOf(after.val.inner)

\* C6 witness: append merged a text with an astral character into the text
\* before it
C6_Witness ==
    /\ op = "append"
    /\ NoAdjacentText(content_or_empty(doc).inner)
    /\ Len(res.val.inner) = Len(content_or_empty(doc).inner) + Len(req.other.inner) - 1
    /\ Len(req.other.inner) > 1
    /\ \E i \in 1..Len(res.val.inner) :
          /\ is_text(res.val.inner[i])
          /\ res.val.inner[i].text.len_utf16 > Len(res.val.inner[i].text.content)
          /\ Len(res.val.inner[i].text.content) > 1

(***************************************************************************)
(* Totality of Node::replace.                                              *)
(***************************************************************************)
\* C7 as stated: for every document, every pair of positions (from > to and
\* positions past the end included) and every slice (open depths that do
\* not fit included), Node::replace returns Ok or an error value and never
\* aborts.
C7_Total == op = "replace_raw" => ~IsPanic(res)

(***************************************************************************)
(* The size scheme.                                                        *)
(***************************************************************************)
\* The size of a node counted from its characters and tokens: the UTF-16
\* code units of a text, 1 for another leaf, 2 more than its children for a
\* node with content
RECURSIVE TokenCount(_)
RECURSIVE TokenCountAll(_)
TokenCount(n) ==
    IF is_text(n) THEN encode_utf16_count(n.text.content)
    ELSE IF has_content(n) THEN TokenCountAll(n.content.inner) + 2
    ELSE 1
TokenCountAll(v) == IF v = <<>> THEN 0 ELSE TokenCount(v[1]) + TokenCountAll(Tail(v))

\* Every node of the sequence, and every node below, has the size its
\* characters and tokens count up to, and every fragment caches the sum of
\* its children's sizes
RECURSIVE SizesRight(_)
SizesRight(v) ==
    \A i \in 1..Len(v) :
        /\ node_size(v[i]) = TokenCount(v[i])
        /\ has_content(v[i]) =>
              /\ v[i].content.size = SumSizes(v[i].content.inner)
              /\ SizesRight(v[i].content.inner)

\* C8: every document an operation is applied to, every fragment
\* Fragment::from(Vec), append, cut and replace_child return and every
\* document replace returns, in any sequence of these operations, has
\* node sizes that follow the scheme (UTF-16 units of a text, 1 for a leaf,
\* content + 2 otherwise) and cached fragment sizes equal to the sum of the
\* children's sizes.
C8_Sizes ==
    /\ SizesRight(<<doc>>)
    /\ (op \in {"from_vec", "append", "cut", "replace_child"} /\ IsOk(res)) =>
          /\ res.val.size = SumSizes(res.val.inner)
          /\ SizesRight(res.val.inner)
    /\ (op = "replace" /\ IsOk(res)) => SizesRight(<<res.val>>)

\* C8 witness: a child of a fragment that an earlier operation returned was
\* replaced by a node of another size, and the fragment holds a text with an
\* astral character
C8_Witness ==
    /\ steps = 1
    /\ op = "replace_child"
    /\ IsOk(res)
    /\ res.val.size # content_size(doc)
    /\ \E i \in 1..Len(res.val.inner) :
          /\ is_text(res.val.inner[i])
          /\ node_size(res.val.inner[i]) > Len(res.val.inner[i].text.content)

(***************************************************************************)
(* Resolving positions.                                                    *)
(***************************************************************************)
\* doc.resolve(pos)
Resolve(pos) ==
    /\ op = "init"
    /\ op' = "resolve"
    /\ req' = [pos |-> pos]
    /\ res' = resolve(doc, pos)
    /\ UNCHANGED <<doc, overflow_checks, steps>>

NextResolve == \E pos \in Positions(doc) : Resolve(pos)

SpecResolve == Init /\ [][NextResolve]_vars

\* C9: for 0 <= p <= size, resolve(p) succeeds with pos = p, depth = path
\* length - 1, a parent that is no text node, start(depth) + parent_offset
\* = p, and at every level k of 1..depth start(k) <= p <= end(k),
\* before(k) = start(k) - 1 and after(k) = end(k) + 1; for p > size it
\* fails with RangeError{pos: p}.
C9_Resolve ==
    op = "resolve" =>
        IF req.pos <= content_size(doc)
        THEN /\ IsOk(res)
             /\ LET rp == res.val IN
                /\ rp.pos = req.pos
                /\ rp.depth = Len(rp.path) - 1
                /\ ~is_text(ResolvedPos_parent(rp))
                /\ ResolvedPos_start(rp, rp.depth) + rp.parent_offset = req.pos
                /\ \A k \in 1..rp.depth :
                      /\ ResolvedPos_start(rp, k) <= req.pos
                      /\ req.pos <= ResolvedPos_end(rp, k)
                      /\ ResolvedPos_before(rp, k) = Some(ResolvedPos_start(rp, k) - 1)
                      /\ ResolvedPos_after(rp, k) = Some(ResolvedPos_end(rp, k) + 1)
        ELSE res = Err(RangeError(req.pos))

\* C9 witness: a position inside a text, three levels deep
C9_Witness ==
    /\ op = "resolve"
    /\ IsOk(res)
    /\ res.val.depth = 3
    /\ text_offset(res.val) > 0
    /\ ResolvedPos_index(res.val, 2) = 1

(***************************************************************************)
(* Node::slice.                                                            *)
(***************************************************************************)
\* The document of merges_matching_blocks
doc_xy ==
    docn(<<p(<<text(<<"x", "x", "x", "x">>)>>), p(<<text(<<"y", "y", "y", "y">>)>>)>>)

InitSlice ==
    /\ doc \in Docs \cup {doc_xy}
    /\ op = "init"
    /\ req = NoReq
    /\ res = NoRes
    /\ overflow_checks \in BOOLEAN
    /\ steps = 0

\* doc.slice(from..to, include_parents)
SliceOp(from, to, include_parents) ==
    /\ op = "init"
    /\ op' = "slice"
    /\ req' = [from |-> from, to |-> to, include_parents |-> include_parents]
    /\ res' = Node_slice(doc, from, to, include_parents)
    /\ UNCHANGED <<doc, overflow_checks, steps>>

NextSlice ==
    \E from \in Positions(doc), to \in Positions(doc), include_parents \in BOOLEAN :
        SliceOp(from, to, include_parents)

SpecSlice == InitSlice /\ [][NextSlice]_vars

\* The depth of the deepest node that is an ancestor of both positions
CommonDepth(rp_from, rp_to) ==
    CHOOSE k \in 0..Min(rp_from.depth, rp_to.depth) :
        /\ \A j \in 1..k : ResolvedPos_start(rp_from, j) = ResolvedPos_start(rp_to, j)
        /\ \A m \in (k + 1)..Min(rp_from.depth, rp_to.depth) :
              \E j \in 1..m : ResolvedPos_start(rp_from, j) # ResolvedPos_start(rp_to, j)

\* What the slice of req.from..req.to is to be: the content of the ancestor
\* of depth s cut to the range, open by the depths below s
SliceShape ==
    LET rp_from == resolve(doc, req.from).val
        rp_to == resolve(doc, req.to).val
        s == IF req.include_parents THEN 0 ELSE CommonDepth(rp_from, rp_to)
        node == ResolvedPos_node(rp_to, s)
        st == ResolvedPos_start(rp_to, s)
    IN  /\ IsOk(res)
        /\ res.val.open_start = rp_from.depth - s
        /\ res.val.open_end = rp_to.depth - s
        /\ res.val.content = Fragment_cut(node.content, req.from - st, req.to - st).val
        /\ res.val.content.size = req.to - req.from + res.val.open_start + res.val.open_end

\* A slice of an ordered, non-empty range of the document has been taken
Sliced ==
    /\ op = "slice"
    /\ req.from < req.to
    /\ req.to <= content_size(doc)

\* C10 as stated: for from < to within the document the slice is the content
\* of the deepest common ancestor cut to the range, with open depths
\* rp_from.depth - s and rp_to.depth - s (s = 0 with include_parents); for
\* from = to it is the empty slice; 3..9 of doc(p("xxxx"), p("yyyy")) is
\* [p("xx"), p("yy")] open 1/1.
C10_Original ==
    /\ Sliced => SliceShape
    /\ (op = "slice" /\ req.from = req.to) => res = Ok(Slice_default)
    /\ (op = "slice" /\ doc = doc_xy /\ req.from = 3 /\ req.to = 9 /\ ~req.include_parents)
          => res = Ok(Slice_new(Fragment_from(<<p(<<text(<<"x", "x">>)>>),
                                              p(<<text(<<"y", "y">>)>>)>>), 1, 1))

\* C10: for from < to within the document, neither inside a surrogate pair,
\* the slice is the content of the deepest common ancestor cut to the range,
\* with open depths rp_from.depth - s and rp_to.depth - s (s = 0 with
\* include_parents); for from = to it is the empty slice; 3..9 of
\* doc(p("xxxx"), p("yyyy")) is [p("xx"), p("yy")] open 1/1.
C10_Slice ==
    /\ (Sliced /\ ~InsidePair(doc, req.from) /\ ~InsidePair(doc, req.to)) => SliceShape
    /\ (op = "slice" /\ req.from = req.to) => res = Ok(Slice_default)
    /\ (op = "slice" /\ doc = doc_xy /\ req.from = 3 /\ req.to = 9 /\ ~req.include_parents)
          => res = Ok(Slice_new(Fragment_from(<<p(<<text(<<"x", "x">>)>>),
                                              p(<<text(<<"y", "y">>)>>)>>), 1, 1))

\* C10 witness: a slice from inside one paragraph into the next, below a
\* common ancestor two levels under the root
C10_Witness ==
    /\ Sliced
    /\ ~req.include_parents
    /\ IsOk(res)
    /\ res.val.open_start = 1
    /\ res.val.open_end = 1
    /\ resolve(doc, req.from).val.depth = 3
    /\ Len(res.val.content.inner) = 2

(***************************************************************************)
(* C11: the size of a slice against the length of its range.               *)
(***************************************************************************)
\* A slice of an ordered range inside the document has been taken
SlicedInside ==
    /\ op = "slice"
    /\ req.from <= req.to
    /\ req.to <= content_size(doc)

\* C11 as stated: for every range from..to inside the document the slice s
\* has s.content.size + s.open_start + s.open_end = to - from.
C11_Original ==
    SlicedInside =>
        /\ IsOk(res)
        /\ res.val.content.size + res.val.open_start + res.val.open_end
              = req.to - req.from

\* C11: for every range from..to inside the document whose ends are not
\* inside a surrogate pair, the slice s has
\* s.content.size - s.open_start - s.open_end = to - from: the content counts
\* one token for every node that is open at either side.
C11_SliceSize ==
    (SlicedInside /\ ~InsidePair(doc, req.from) /\ ~InsidePair(doc, req.to)) =>
        /\ IsOk(res)
        /\ res.val.content.size - res.val.open_start - res.val.open_end
              = req.to - req.from

\* C11 witness: a slice below the root that is open deeper at its start than
\* at its end
C11_Witness ==
    /\ SlicedInside
    /\ ~req.include_parents
    /\ IsOk(res)
    /\ res.val.open_start > res.val.open_end
    /\ res.val.open_end > 0
    /\ res.val.content.size - res.val.open_start - res.val.open_end
          = req.to - req.from

(***************************************************************************)
(* Node::cut on single nodes (C12).                                        *)
(***************************************************************************)
\* The nodes that are cut: text nodes (plain, marked, with an astral
\* character) and nodes with content
CutNodes ==
    { text(<<"a", "b">>), strong(<<"a", "U+1F60A">>) }
    \cup { p(<<text(<<"a", "b">>), strong(<<"c">>)>>), doc_astral, doc_p_empty,
           doc_quote_list }
    \cup Shapes(MaxTextLen)

\* The extent a range of Node::cut is measured in: UTF-16 units of a text,
\* content size of a node with content
CutExtent(n) == IF is_text(n) THEN n.text.len_utf16 ELSE content_size(n)

InitCut ==
    /\ doc \in CutNodes
    /\ op = "init"
    /\ req = NoReq
    /\ res = NoRes
    /\ overflow_checks \in BOOLEAN
    /\ steps = 0

\* node.cut(from..to)
NodeCutOp(from, to) ==
    /\ op = "init"
    /\ op' = "node_cut"
    /\ req' = [from |-> from, to |-> to]
    /\ res' = Node_cut(doc, from, to)
    /\ UNCHANGED <<doc, overflow_checks, steps>>

NextCut ==
    \E from \in 0..(CutExtent(doc) + MaxOver), to \in 0..(CutExtent(doc) + MaxOver) :
        NodeCutOp(from, to)

SpecCut == InitCut /\ [][NextCut]_vars

\* An ordered range inside the node has been cut out of it
CutInside ==
    /\ op = "node_cut"
    /\ req.from <= req.to
    /\ req.to <= CutExtent(doc)

\* The offset is between the two code units of a surrogate pair of the node:
\* of the text itself, or of a text below the node with content
CutInsidePair(n, pos) ==
    IF is_text(n) THEN pos \notin Boundaries(n.text.content)
    ELSE InsidePair(n, pos)

\* How many nodes with content lie between the node and the position
DepthAt(n, pos) == resolve(n, pos).val.depth

\* C12 as stated: for every node (text or with content) and every range
\* from..to inside it, the cut has node_size = to - from.
C12_Original ==
    CutInside => (IsOk(res) /\ node_size(res.val) = req.to - req.from)

\* C12: for a range from..to inside the node whose ends are not inside a
\* surrogate pair, the cut of a text node has node_size = to - from; the cut
\* of a node with content is a node of the same type and attributes whose
\* content has size 0 for from = to and otherwise
\* (to - from) + depth of from + depth of to (one token for every node the
\* range opens), so that its node_size is that plus 2.
C12_CutSize ==
    (CutInside /\ ~CutInsidePair(doc, req.from) /\ ~CutInsidePair(doc, req.to)) =>
        /\ IsOk(res)
        /\ res.val.type = doc.type
        /\ is_text(doc) => node_size(res.val) = req.to - req.from
        /\ (has_content(doc) /\ req.from = req.to) => node_size(res.val) = 2
        /\ (has_content(doc) /\ req.from < req.to) =>
              /\ SameKind(res.val, doc)
              /\ node_size(res.val) =
                    2 + (req.to - req.from) + DepthAt(doc, req.from) + DepthAt(doc, req.to)

\* C12 witness: a cut of a node with content that starts inside one child
\* and ends inside another
C12_Witness ==
    /\ CutInside
    /\ has_content(doc)
    /\ IsOk(res)
    /\ DepthAt(doc, req.from) > 0
    /\ DepthAt(doc, req.to) > 0
    /\ Len(res.val.content.inner) >= 2
    /\ node_size(res.val) > 2 + (req.to - req.from)

(***************************************************************************)
(* Steps (transform crate): ReplaceStep and ReplaceAroundStep.             *)
(***************************************************************************)
\* StepError
WouldOverwrite == [step_error |-> "WouldOverwrite"]
GapWouldOverwrite == [step_error |-> "GapWouldOverwrite"]
GapNotFlat == [step_error |-> "GapNotFlat"]
GapNotFit == [step_error |-> "GapNotFit"]
StepResolve(e) == [step_error |-> "Resolve", err |-> e]
StepReplace(e) == [step_error |-> "Replace", err |-> e]
StepSlice(e) == [step_error |-> "Slice", err |-> e]
StepInsert(e) == [step_error |-> "Insert", err |-> e]

\* The ? operator in a step: From<E> for StepError wraps the error by Wrap
TryStep(r, Wrap(_), F(_)) ==
    IF IsOk(r) THEN F(r.val) ELSE IF IsErr(r) THEN Err(Wrap(r.err)) ELSE r

\* Node::first_child
first_child(n) == maybe_child(content_or_empty(n), 0)

\* The first while loop of content_between: up the right fringe
RECURSIVE content_between_climb(_, _, _)
content_between_climb(rp_from, dist, depth) ==
    IF dist > 0 /\ depth > 0
       /\ index_after(rp_from, depth) = child_count(ResolvedPos_node(rp_from, depth))
    THEN content_between_climb(rp_from, dist - 1, depth - 1)
    ELSE [dist |-> dist, depth |-> depth]

\* The second while loop of content_between: down the first children
RECURSIVE content_between_scan(_, _)
content_between_scan(next, dist) ==
    IF dist > 0
    THEN IF next = None THEN TRUE
         ELSE IF is_leaf(next.val) THEN TRUE
         ELSE content_between_scan(first_child(next.val), dist - 1)
    ELSE FALSE

\* content_between: Ok(bool), Err(ResolveErr) or a panic.  For to < from the
\* subtraction panics with overflow checks; without them dist wraps to
\* 2^64 + to - from, more than the depth of any tree, so that the walk ends
\* at a leaf or at a missing child.
content_between(d, from, to) ==
    Try(resolve(d, from), LAMBDA rp_from :
    IF to < from
    THEN IF overflow_checks THEN Panic("attempt to subtract with overflow")
         ELSE Ok(TRUE)
    ELSE Let(content_between_climb(rp_from, to - from, rp_from.depth), LAMBDA up :
         Ok(/\ up.dist > 0
            /\ content_between_scan(
                   maybe_child(content_or_empty(ResolvedPos_node(rp_from, up.depth)),
                               index_after(rp_from, up.depth)),
                   up.dist))))

\* A ReplaceStep that never looks at the content of its range
ReplaceStep_apply_unguarded(step, d) ==
    TryStep(Node_replace(d, step.from, step.to, step.slice), StepReplace,
            LAMBDA node : Ok(node))

\* ReplaceStep::apply
ReplaceStep_apply(step, d) ==
    TryStep(IF step.structure THEN content_between(d, step.from, step.to)
            ELSE Ok(FALSE), StepResolve, LAMBDA between :
    IF between THEN Err(WouldOverwrite)
    ELSE TryStep(Node_replace(d, step.from, step.to, step.slice), StepReplace,
                 LAMBDA node : Ok(node)))

\* InsertError::Index
InsertIndex(e) == [kind |-> "Index", err |-> e]

\* The ? operator on find_index in insert_into: From<IndexError> for InsertError
TryInsertIndex(r, F(_)) ==
    IF IsOk(r) THEN F(r.val) ELSE IF IsErr(r) THEN Err(InsertIndex(r.err)) ELSE r

\* insert_into: Ok(Some(fragment)), Ok(None), Err(InsertError) or a panic.
\* Slice::insert_at and the recursive call both pass None for `parent`, so
\* the can_replace guard of the first branch is never evaluated.
RECURSIVE insert_into(_, _, _)
insert_into(content, dist, insert) ==
    TryInsertIndex(find_index(content, dist, FALSE), LAMBDA found :
    Let(maybe_child(content, found.index), LAMBDA child :
    IF found.offset = dist \/ (child # None /\ is_text(child.val))
    THEN Try(Fragment_cut(content, 0, dist), LAMBDA l :
         Try(Fragment_cut(content, dist, content.size), LAMBDA r :
         Ok(Some(append(append(l, insert), r)))))
    ELSE IF child = None THEN Panic("called Option::unwrap() on a None value")
    ELSE Try(insert_into(content_or_empty(child.val), dist - found.offset - 1, insert),
             LAMBDA inner :
         IF inner = None THEN Ok(None)
         ELSE Try(replace_child(content, found.index, copy(child.val, inner.val)),
                  LAMBDA c : Ok(Some(c))))))

\* Slice::insert_at
insert_at(slice, pos, fragment) ==
    Try(insert_into(slice.content, pos + slice.open_start, fragment), LAMBDA c :
    Ok(IF c = None THEN None
       ELSE Some(Slice_new(c.val, slice.open_start, slice.open_end))))

\* The `structure && (content_between(..)? || content_between(..)?)` condition
\* of ReplaceAroundStep::apply
gap_overwrites(step, d) ==
    IF ~step.structure THEN Ok(FALSE)
    ELSE Try(content_between(d, step.from, step.gap_from), LAMBDA before :
         IF before THEN Ok(TRUE)
         ELSE content_between(d, step.gap_to, step.to))

\* A ReplaceAroundStep that takes the gap before it looks at the structure
ReplaceAroundStep_apply_gap_first(step, d) ==
    TryStep(Node_slice(d, step.gap_from, step.gap_to, FALSE), StepSlice, LAMBDA gap :
    IF gap.open_start # 0 \/ gap.open_end # 0 THEN Err(GapNotFlat)
    ELSE
    TryStep(gap_overwrites(step, d), StepResolve, LAMBDA overwrites :
    IF overwrites THEN Err(GapWouldOverwrite)
    ELSE
    TryStep(insert_at(step.slice, step.insert, gap.content), StepInsert, LAMBDA inserted :
    IF inserted = None THEN Err(GapNotFit)
    ELSE TryStep(Node_replace(d, step.from, step.to, inserted.val), StepReplace,
                 LAMBDA result : Ok(result)))))

\* ReplaceAroundStep::apply
ReplaceAroundStep_apply(step, d) ==
    TryStep(gap_overwrites(step, d), StepResolve, LAMBDA overwrites :
    IF overwrites THEN Err(GapWouldOverwrite)
    ELSE
    TryStep(Node_slice(d, step.gap_from, step.gap_to, FALSE), StepSlice, LAMBDA gap :
    IF gap.open_start # 0 \/ gap.open_end # 0 THEN Err(GapNotFlat)
    ELSE
    TryStep(insert_at(step.slice, step.insert, gap.content), StepInsert, LAMBDA inserted :
    IF inserted = None THEN Err(GapNotFit)
    ELSE TryStep(Node_replace(d, step.from, step.to, inserted.val), StepReplace,
                 LAMBDA result : Ok(result)))))

(***************************************************************************)
(* State machine of the replace steps: one step is applied to a document.  *)
(***************************************************************************)
StepDocs ==
    { docn(<<p(<<text(<<"a", "a">>)>>), p(<<text(<<"b">>)>>)>>),
      docn(<<blockquote(<<p(<<text(<<"a">>)>>)>>)>>),
      docn(<<p(<<text(<<"a">>)>>), hr>>),
      docn(<<p(<<>>), p(<<>>)>>),
      doc_astral }

\* The slices of the steps: <<slice, insert>>.  A deletion, a text, a
\* paragraph boundary, and the wrappers a ReplaceAroundStep puts around its
\* gap (block quote, paragraph, list item)
StepSlices ==
    { <<Slice_default, 0>>,
      <<Slice_new(Fragment_from(<<text(<<"x">>)>>), 0, 0), 0>>,
      <<Slice_new(Fragment_from(<<p(<<>>), p(<<>>)>>), 1, 1), 0>>,
      <<Slice_new(Fragment_from(<<blockquote(<<>>)>>), 0, 0), 1>>,
      <<Slice_new(Fragment_from(<<p(<<>>)>>), 0, 0), 1>>,
      <<Slice_new(Fragment_from(<<ul(<<li(<<>>)>>)>>), 0, 0), 2>>,
      <<Slice_new(Fragment_from(<<blockquote(<<>>)>>), 0, 0), 3>> }

InitStep ==
    /\ doc \in StepDocs
    /\ op = "init"
    /\ req = NoReq
    /\ res = NoRes
    /\ overflow_checks \in BOOLEAN
    /\ steps = 0

\* ReplaceStep { span: from..to, slice, structure }.apply(doc)
ReplaceStepOp(from, to, ss, structure) ==
    /\ op = "init"
    /\ op' = "replace_step"
    /\ req' = [from |-> from, to |-> to, slice |-> ss[1], structure |-> structure]
    /\ res' = ReplaceStep_apply(req', doc)
    /\ UNCHANGED <<doc, overflow_checks, steps>>

\* ReplaceAroundStep { span: from..to, gap_from, gap_to, slice, insert,
\* structure }.apply(doc)
ReplaceAroundStepOp(from, gap_from, gap_to, to, ss, structure) ==
    /\ op = "init"
    /\ op' = "replace_around_step"
    /\ req' = [from |-> from, to |-> to, gap_from |-> gap_from, gap_to |-> gap_to,
               slice |-> ss[1], insert |-> ss[2], structure |-> structure]
    /\ res' = ReplaceAroundStep_apply(req', doc)
    /\ UNCHANGED <<doc, overflow_checks, steps>>

\* One step is applied to the document as it was built
NextStep ==
    \/ /\ op = "init"
       /\ \E from \in Positions(doc), to \in Positions(doc), ss \in StepSlices,
             structure \in BOOLEAN :
             ReplaceStepOp(from, to, ss, structure)
    \/ /\ op = "init"
       /\ \E from \in Positions(doc), gap_from \in Positions(doc),
             gap_to \in Positions(doc), to \in Positions(doc), ss \in StepSlices,
             structure \in BOOLEAN :
             /\ from <= gap_from
             /\ gap_from <= gap_to
             /\ gap_to <= to
             /\ ReplaceAroundStepOp(from, gap_from, gap_to, to, ss, structure)

SpecStep == InitStep /\ [][NextStep]_vars

(***************************************************************************)
(* C13: a structural ReplaceStep against the leaves of its range.          *)
(***************************************************************************)
\* <<start, end>> of every leaf below the children `inner`, the first of
\* which starts at position base: one span per text character, one per
\* non-text leaf
RECURSIVE LeafSpans(_, _)
LeafSpans(inner, base) ==
    IF inner = <<>> THEN {}
    ELSE LET n == Head(inner) IN
         (IF is_text(n)
          THEN { <<base + encode_utf16_count(SubSeq(n.text.content, 1, k - 1)),
                   base + encode_utf16_count(SubSeq(n.text.content, 1, k))>> :
                 k \in 1..Len(n.text.content) }
          ELSE IF is_leaf(n) THEN {<<base, base + 1>>}
          ELSE LeafSpans(n.content.inner, base + 1))
         \cup LeafSpans(Tail(inner), base + node_size(n))

\* Some leaf of the document lies between the two positions
LeafBetween(d, from, to) ==
    \E s \in LeafSpans(d.content.inner, 0) : from <= s[1] /\ s[2] <= to

\* A ReplaceStep over an ordered range inside the document has been applied
StepInside ==
    /\ op = "replace_step"
    /\ req.from <= req.to
    /\ req.to <= content_size(doc)

\* C13 as stated: with structure = true the step fails with WouldOverwrite
\* if a leaf (a text character or a non-text leaf node) lies between from and
\* to, and returns doc.replace(from..to, slice) only when none does; with
\* structure = false it always returns doc.replace(from..to, slice).
C13_Original ==
    StepInside =>
        IF req.structure /\ LeafBetween(doc, req.from, req.to)
        THEN res = Err(WouldOverwrite)
        ELSE res = ReplaceStep_apply_unguarded(req, doc)

\* C13, the safety half on its own: a structural ReplaceStep whose range
\* holds a leaf fails with WouldOverwrite.
C13_NeverOverwrites ==
    (StepInside /\ req.structure /\ LeafBetween(doc, req.from, req.to))
        => res = Err(WouldOverwrite)

\* A structural ReplaceStep has removed a text character
C13_Overwritten ==
    /\ StepInside
    /\ req.structure
    /\ LeafBetween(doc, req.from, req.to)
    /\ IsOk(res)
    /\ req.slice = Slice_default

(***************************************************************************)
(* C14: the order of the failure conditions of ReplaceAroundStep::apply.   *)
(***************************************************************************)
\* A ReplaceAroundStep over positions inside the document has been applied
AroundInside ==
    /\ op = "replace_around_step"
    /\ req.to <= content_size(doc)

\* The gap of the applied step, as apply slices it
GapOf == Node_slice(doc, req.gap_from, req.gap_to, FALSE)

C14_WitnessWrapped ==
    /\ AroundInside
    /\ req.gap_from < req.gap_to
    /\ req.slice.content.size > 0
    /\ IsOk(res)
    /\ res.val # doc

\* A step has failed because its gap is not flat
C14_WitnessNotFlat ==
    /\ AroundInside
    /\ res = Err(GapNotFlat)

\* No step fails with GapNotFit
C14_NeverNotFit ==
    op = "replace_around_step" => res # Err(GapNotFit)

(***************************************************************************)
(* Mark sets (marks.rs): a Vec of marks kept sorted by mark type.          *)
(***************************************************************************)
\* derive(Ord) on MarkdownMarkType: the rank of a type is its place in the
\* declaration
TypeRank(t) == CHOOSE i \in 1..Len(MarkTypes) : MarkTypes[i] = t

\* content.binary_search_by_key(&t, Mark::type): Ok(index) of the mark of
\* that type, or Err(index) where a mark of that type keeps the order
\* (indices from 0, as in the source)
binary_search_by_type(content, t) ==
    IF \E i \in 1..Len(content) : content[i].type = t
    THEN Ok((CHOOSE i \in 1..Len(content) : content[i].type = t) - 1)
    ELSE Err(Cardinality({i \in 1..Len(content) :
                              TypeRank(content[i].type) < TypeRank(t)}))

\* Vec::insert(index, mark)
Vec_insert(content, index, mark) ==
    SubSeq(content, 1, index) \o <<mark>> \o SubSeq(content, index + 1, Len(content))

\* Vec::remove(index)
Vec_remove(content, index) ==
    SubSeq(content, 1, index) \o SubSeq(content, index + 2, Len(content))

\* A mark set that puts every mark at the end of the vector
MarkSet_add_unsorted(set, mark) == Append(set, mark)

\* MarkSet::add
MarkSet_add(set, mark) ==
    Let(binary_search_by_type(set, mark.type), LAMBDA found :
    IF IsOk(found)
    THEN IF set[found.val + 1] # mark
         THEN [set EXCEPT ![found.val + 1] = mark]
         ELSE set
    ELSE Vec_insert(set, found.err, mark))

\* MarkSet::remove
MarkSet_remove(set, mark) ==
    Let(binary_search_by_type(set, mark.type), LAMBDA found :
    IF IsOk(found) THEN Vec_remove(set, found.val) ELSE set)

\* Mark::add_to_set
add_to_set(mark, set) ==
    Let(binary_search_by_type(set, mark.type), LAMBDA found :
    IF IsOk(found)
    THEN IF set[found.val + 1] = mark
         THEN set
         ELSE [set EXCEPT ![found.val + 1] = mark]
    ELSE Vec_insert(set, found.err, mark))

\* Mark::remove_from_set
remove_from_set(mark, set) ==
    Let(binary_search_by_type(set, mark.type), LAMBDA found :
    IF IsOk(found) THEN Vec_remove(set, found.val) ELSE set)

\* value.sort_by_key(|m| m.type()): a stable sort
RECURSIVE sort_by_type(_)
sort_by_type(value) ==
    IF value = <<>> THEN <<>>
    ELSE Let(sort_by_type(SubSeq(value, 1, Len(value) - 1)), LAMBDA sorted :
         Let(value[Len(value)], LAMBDA m :
         Vec_insert(sorted,
                    Cardinality({i \in 1..Len(sorted) :
                                    TypeRank(sorted[i].type) <= TypeRank(m.type)}),
                    m)))

\* value.dedup_by_key(|m| m.type()): of each run of one type the first stays
RECURSIVE dedup_by_type(_)
dedup_by_type(value) ==
    IF Len(value) <= 1 THEN value
    ELSE Let(dedup_by_type(SubSeq(value, 1, Len(value) - 1)), LAMBDA kept :
         IF kept[Len(kept)].type = value[Len(value)].type
         THEN kept
         ELSE Append(kept, value[Len(value)]))

\* MarkSetError::Duplicates
Duplicates == "Duplicates"

\* TryFrom<Vec<S::Mark>> for MarkSet
MarkSet_try_from(value) ==
    Let(dedup_by_type(sort_by_type(value)), LAMBDA deduped :
    IF Len(value) > Len(deduped) THEN Err(Duplicates) ELSE Ok(deduped))

(***************************************************************************)
(* Mark steps (mark_step.rs).                                              *)
(***************************************************************************)
\* derive(Node): Node::mark sets the marks of a text node and clones any
\* other node
mark(n, set) == IF is_text(n) THEN [n EXCEPT !.marks = set] ELSE n

\* MarkdownNodeType::allows_mark_type
allows_mark_type(t, mark_type) == allow_marks(t)

\* node.marks().map(Cow::Borrowed).unwrap_or_default()
marks_or_default(n) == IF marks(n) = None THEN <<>> ELSE marks(n).val

\* The closure AddMarkStep::apply maps over the inline nodes
add_mark_to(node, parent, m) ==
    IF allows_mark_type(parent.type, m.type)
    THEN mark(node, add_to_set(m, marks_or_default(node)))
    ELSE node

\* The closure RemoveMarkStep::apply maps over the inline nodes
remove_mark_from(node, m) == mark(node, remove_from_set(m, marks_or_default(node)))

\* map_fragment_parent with the closure of AddMarkStep::apply
RECURSIVE map_fragment_parent(_, _, _)
map_fragment_parent(fragment, m, parent) ==
    Fragment_from([i \in 1..Len(fragment.inner) |->
        Let(fragment.inner[i], LAMBDA child :
        Let(copy(child, map_fragment_parent(content_or_empty(child), m, child)),
            LAMBDA copied :
        IF is_inline(copied.type) THEN add_mark_to(copied, parent, m) ELSE copied))])

\* map_fragment with the closure of RemoveMarkStep::apply
RECURSIVE map_fragment(_, _)
map_fragment(fragment, m) ==
    Fragment_from([i \in 1..Len(fragment.inner) |->
        Let(copy(fragment.inner[i], map_fragment(content_or_empty(fragment.inner[i]), m)),
            LAMBDA copied :
        IF is_inline(copied.type) THEN remove_mark_from(copied, m) ELSE copied)])

\* An AddMarkStep that marks the inline nodes of the whole document
AddMarkStep_apply_everywhere(step, d) ==
    TryStep(Node_slice(d, 0, content_size(d), FALSE), StepSlice, LAMBDA old_slice :
    TryStep(resolve(d, 0), StepResolve, LAMBDA rp_from :
    Let(ResolvedPos_node(rp_from, shared_depth(rp_from, content_size(d))), LAMBDA parent :
    Let(Slice_new(map_fragment_parent(old_slice.content, step.mark, parent),
                  old_slice.open_start, old_slice.open_end), LAMBDA slice :
    TryStep(Node_replace(d, 0, content_size(d), slice), StepReplace,
            LAMBDA new_node : Ok(new_node))))))

\* AddMarkStep::apply
AddMarkStep_apply(step, d) ==
    TryStep(Node_slice(d, step.from, step.to, FALSE), StepSlice, LAMBDA old_slice :
    TryStep(resolve(d, step.from), StepResolve, LAMBDA rp_from :
    Let(ResolvedPos_node(rp_from, shared_depth(rp_from, step.to)), LAMBDA parent :
    Let(Slice_new(map_fragment_parent(old_slice.content, step.mark, parent),
                  old_slice.open_start, old_slice.open_end), LAMBDA slice :
    TryStep(Node_replace(d, step.from, step.to, slice), StepReplace,
            LAMBDA new_node : Ok(new_node))))))

\* RemoveMarkStep::apply
RemoveMarkStep_apply(step, d) ==
    TryStep(Node_slice(d, step.from, step.to, FALSE), StepSlice, LAMBDA old_slice :
    Let(Slice_new(map_fragment(old_slice.content, step.mark),
                  old_slice.open_start, old_slice.open_end), LAMBDA slice :
    TryStep(Node_replace(d, step.from, step.to, slice), StepReplace,
            LAMBDA new_node : Ok(new_node))))

(***************************************************************************)
(* State machine of the mark steps: an AddMarkStep or a RemoveMarkStep is  *)
(* applied to a document, and a RemoveMarkStep over the same span and mark *)
(* may follow an AddMarkStep on its result.                                *)
(***************************************************************************)
\* The document of test_apply
doc_hello ==
    docn(<<p(<<text(<<"H", "e", "l", "l", "o", " ", "W", "o", "r", "l", "d", "!">>)>>)>>)

MarkDocs ==
    { doc_hello,
      docn(<<p(<<em(<<"a">>), text(<<"b">>), strong(<<"c">>)>>)>>),
      docn(<<p(<<em(<<"a", "b">>)>>), code_block("", <<text(<<"c">>)>>)>>),
      docn(<<p(<<text(<<"a">>), br, marked(<<"b">>, <<Strong, Em>>)>>)>>),
      docn(<<blockquote(<<p(<<marked(<<"a">>, into_set(Link("x")))>>)>>),
             h1(<<strong(<<"b">>)>>)>>),
      doc_astral }

\* The marks of the steps
StepMarks == {Strong, Em, Link("x"), Link("y")}

InitMark ==
    /\ doc \in MarkDocs
    /\ op = "init"
    /\ req = NoReq
    /\ res = NoRes
    /\ overflow_checks \in BOOLEAN
    /\ steps = 0

\* AddMarkStep { span: from..to, mark: m }.apply(doc)
AddMarkOp(from, to, m) ==
    /\ op' = "add_mark"
    /\ req' = [from |-> from, to |-> to, mark |-> m]
    /\ res' = AddMarkStep_apply(req', doc)
    /\ UNCHANGED <<doc, overflow_checks, steps>>

\* RemoveMarkStep { span: from..to, mark: m }.apply(doc)
RemoveMarkOp(from, to, m) ==
    /\ op' = "remove_mark"
    /\ req' = [from |-> from, to |-> to, mark |-> m]
    /\ res' = RemoveMarkStep_apply(req', doc)
    /\ UNCHANGED <<doc, overflow_checks, steps>>

\* The RemoveMarkStep of the same span and mark, applied to the document the
\* AddMarkStep returned
RemoveAfterAdd ==
    /\ op = "add_mark"
    /\ IsOk(res)
    /\ op' = "add_remove_mark"
    /\ res' = RemoveMarkStep_apply(req, res.val)
    /\ UNCHANGED <<doc, req, overflow_checks, steps>>

NextMark ==
    \/ /\ op = "init"
       /\ \E from \in Positions(doc), to \in Positions(doc), m \in StepMarks :
             AddMarkOp(from, to, m)
    \/ /\ op = "init"
       /\ \E from \in Positions(doc), to \in Positions(doc), m \in StepMarks :
             RemoveMarkOp(from, to, m)
    \/ RemoveAfterAdd

SpecMark == InitMark /\ [][NextMark]_vars

(***************************************************************************)
(* C15: the frame of AddMarkStep.                                          *)
(***************************************************************************)
\* One token per UTF-16 code unit of a text node with the given parent type
FlatText(n, parent) ==
    [k \in 1..n.text.len_utf16 |->
        [kind |-> "char",
         ch |-> n.text.content[CHOOSE j \in 1..Len(n.text.content) :
                    /\ encode_utf16_count(SubSeq(n.text.content, 1, j - 1)) < k
                    /\ k <= encode_utf16_count(SubSeq(n.text.content, 1, j))],
         marks |-> n.marks,
         parent |-> parent]]

\* The tokens of the children `inner` of a node of type parent, one for each
\* position they take: the token i of a document lies between the positions
\* i - 1 and i
RECURSIVE FlatNodes(_, _)
FlatNodes(inner, parent) ==
    IF inner = <<>> THEN <<>>
    ELSE LET n == Head(inner) IN
         (IF is_text(n) THEN FlatText(n, parent)
          ELSE IF is_leaf(n) THEN <<[kind |-> "leaf", type |-> n.type]>>
          ELSE <<[kind |-> "open", type |-> n.type, attrs |-> n.attrs]>>
               \o FlatNodes(n.content.inner, n.type)
               \o <<[kind |-> "close", type |-> n.type]>>)
         \o FlatNodes(Tail(inner), parent)

Flat(d) == FlatNodes(d.content.inner, d.type)

\* A token without its marks
Unmarked(tok) == IF tok.kind = "char" THEN [tok EXCEPT !.marks = <<>>] ELSE tok

\* The mark is one of the marks of the set
HasMark(set, m) == \E i \in 1..Len(set) : set[i] = m

\* The token i lies in the span of the applied step
InSpan(i) == req.from < i /\ i <= req.to

\* An AddMarkStep has been applied and returned a document
MarkAdded == op = "add_mark" /\ IsOk(res)

\* C15: AddMarkStep changes marks only inside the span.  The result has the
\* tokens of the input (same structure, same text, same size); every text
\* character in [from, to) whose parent type allows marks carries the mark;
\* every text character outside the span keeps its marks; and span 1..9 with
\* strong over p("Hello World!") gives p(strong("Hello Wo"), "rld!").
C15_AddMarkFrame ==
    /\ MarkAdded =>
          LET a == Flat(doc)
              b == Flat(res.val)
          IN  /\ content_size(res.val) = content_size(doc)
              /\ Len(b) = Len(a)
              /\ \A i \in 1..Len(a) :
                    /\ Unmarked(b[i]) = Unmarked(a[i])
                    /\ a[i].kind = "char" =>
                          IF InSpan(i)
                          THEN allow_marks(a[i].parent) => HasMark(b[i].marks, req.mark)
                          ELSE b[i].marks = a[i].marks
    /\ (op = "add_mark" /\ doc = doc_hello
        /\ req = [from |-> 1, to |-> 9, mark |-> Strong]) =>
          res = Ok(docn(<<p(<<strong(<<"H", "e", "l", "l", "o", " ", "W", "o">>),
                              text(<<"r", "l", "d", "!">>)>>)>>))

\* A mark has been added to the middle of a text node that carried another
\* mark next to unmarked text
C15_Witness ==
    /\ MarkAdded
    /\ req.from < req.to
    /\ \E i \in 1..Len(Flat(doc)) :
          /\ Flat(doc)[i].kind = "char"
          /\ InSpan(i)
          /\ ~HasMark(Flat(doc)[i].marks, req.mark)
          /\ HasMark(Flat(res.val)[i].marks, req.mark)
    /\ \E i \in 1..Len(Flat(doc)) :
          /\ Flat(doc)[i].kind = "char"
          /\ ~InSpan(i)
          /\ Flat(doc)[i].marks # <<>>

\* The step of test_apply has been applied
C15_WitnessHello ==
    /\ op = "add_mark"
    /\ doc = doc_hello
    /\ req = [from |-> 1, to |-> 9, mark |-> Strong]
    /\ IsOk(res)

(***************************************************************************)
(* C16: AddMarkStep and the marks a node already carries.                  *)
(***************************************************************************)
\* C16: after AddMarkStep every text character of the span whose parent type
\* allows marks carries the new mark together with all marks of other types
\* it carried before.
C16_Original ==
    MarkAdded =>
        LET a == Flat(doc)
            b == Flat(res.val)
        IN  \A i \in 1..Len(a) :
                (a[i].kind = "char" /\ InSpan(i) /\ allow_marks(a[i].parent)) =>
                    /\ HasMark(b[i].marks, req.mark)
                    /\ \A k \in 1..Len(a[i].marks) :
                          a[i].marks[k].type # req.mark.type =>
                              HasMark(b[i].marks, a[i].marks[k])

\* A text node marked em has received strong and carries strong only
C16_Dropped ==
    /\ MarkAdded
    /\ req.mark = Strong
    /\ \E i \in 1..Len(Flat(doc)) :
          /\ Flat(doc)[i].kind = "char"
          /\ InSpan(i)
          /\ Flat(doc)[i].marks = <<Em>>
          /\ Flat(res.val)[i].marks = <<Strong>>

(***************************************************************************)
(* C17: the frame of RemoveMarkStep.                                       *)
(***************************************************************************)
\* The marks of a set that are not of the given type
RECURSIVE WithoutType(_, _)
WithoutType(set, t) ==
    IF set = <<>> THEN <<>>
    ELSE IF Head(set).type = t THEN WithoutType(Tail(set), t)
    ELSE <<Head(set)>> \o WithoutType(Tail(set), t)

\* A RemoveMarkStep has been applied and returned a document
MarkRemoved == op = "remove_mark" /\ IsOk(res)

\* C17: RemoveMarkStep removes only the mark of the given mark's type from
\* the text of the span: the marks of every other type on that text and all
\* marks on text outside the span are unchanged, as are structure, text and
\* size of the document.
C17_Original ==
    MarkRemoved =>
        LET a == Flat(doc)
            b == Flat(res.val)
        IN  /\ content_size(res.val) = content_size(doc)
            /\ Len(b) = Len(a)
            /\ \A i \in 1..Len(a) :
                  /\ Unmarked(b[i]) = Unmarked(a[i])
                  /\ a[i].kind = "char" =>
                        b[i].marks = IF InSpan(i)
                                     THEN WithoutType(a[i].marks, req.mark.type)
                                     ELSE a[i].marks

\* Removing strong has removed em from a text node
C17_Stripped ==
    /\ MarkRemoved
    /\ req.mark = Strong
    /\ \E i \in 1..Len(Flat(doc)) :
          /\ Flat(doc)[i].kind = "char"
          /\ InSpan(i)
          /\ Flat(doc)[i].marks = <<Em>>
          /\ Flat(res.val)[i].marks = <<>>

(***************************************************************************)
(* C18: AddMarkStep followed by RemoveMarkStep over the same span.         *)
(***************************************************************************)
\* The RemoveMarkStep that followed the AddMarkStep has returned a document
MarkAddedRemoved == op = "add_remove_mark" /\ IsOk(res)

\* Some text character of the span carries a mark of the type of the step's
\* mark in the original document
TypeInSpan ==
    \E i \in 1..Len(Flat(doc)) :
        /\ Flat(doc)[i].kind = "char"
        /\ InSpan(i)
        /\ \E k \in 1..Len(Flat(doc)[i].marks) :
              Flat(doc)[i].marks[k].type = req.mark.type

\* C18: AddMarkStep and then RemoveMarkStep over the same span and mark give
\* the original document if and only if no mark of that type was in the span;
\* otherwise they give the original document with that mark type removed
\* from the span and nothing else changed.
C18_Original ==
    MarkAddedRemoved =>
        LET a == Flat(doc)
            b == Flat(res.val)
        IN  /\ (res.val = doc) <=> ~TypeInSpan
            /\ Len(b) = Len(a)
            /\ \A i \in 1..Len(a) :
                  /\ Unmarked(b[i]) = Unmarked(a[i])
                  /\ a[i].kind = "char" =>
                        b[i].marks = IF InSpan(i)
                                     THEN WithoutType(a[i].marks, req.mark.type)
                                     ELSE a[i].marks

\* Adding and removing strong over text marked em has changed the document
C18_Changed ==
    /\ MarkAddedRemoved
    /\ req.mark = Strong
    /\ ~TypeInSpan
    /\ res.val # doc
    /\ \E i \in 1..Len(Flat(doc)) :
          /\ Flat(doc)[i].kind = "char"
          /\ InSpan(i)
          /\ Flat(doc)[i].marks = <<Em>>
          /\ Flat(res.val)[i].marks = <<>>

(***************************************************************************)
(* State machine of a mark set: the marks of one text node, built by       *)
(* default, into_set or try_from and changed by add, remove, add_to_set    *)
(* and remove_from_set.                                                    *)
(***************************************************************************)
\* The marks the operations are called with
MarkValues == {Strong, Em, Code, Link("x"), Link("y")}

\* Longest vector handed to try_from
MaxVec == 3

\* The vectors handed to try_from
MarkVecs == UNION {[1..n -> MarkValues] : n \in 0..MaxVec}

\* A text node with MarkSet::default()
InitMarkSet ==
    /\ doc = text(<<"a">>)
    /\ op = "init"
    /\ req = NoReq
    /\ res = NoRes
    /\ overflow_checks \in BOOLEAN
    /\ steps = 0

\* doc.marks = MarkSet::try_from(v)?
MarkSetTryFromOp(v) ==
    /\ op' = "try_from"
    /\ req' = [vec |-> v]
    /\ res' = MarkSet_try_from(v)
    /\ doc' = IF IsOk(res') THEN mark(doc, res'.val) ELSE doc
    /\ UNCHANGED <<overflow_checks, steps>>

\* doc.marks = m.into_set()
MarkSetIntoSetOp(m) ==
    /\ op' = "into_set"
    /\ req' = [mark |-> m]
    /\ res' = Ok(into_set(m))
    /\ doc' = mark(doc, into_set(m))
    /\ UNCHANGED <<overflow_checks, steps>>

\* doc.marks.add(&m)
MarkSetAddOp(m) ==
    /\ Len(doc.marks) <= Len(MarkTypes)
    /\ op' = "add"
    /\ req' = [mark |-> m, set |-> doc.marks]
    /\ res' = NoRes
    /\ doc' = mark(doc, MarkSet_add(doc.marks, m))
    /\ UNCHANGED <<overflow_checks, steps>>

\* doc.marks.remove(&m)
MarkSetRemoveOp(m) ==
    /\ op' = "remove"
    /\ req' = [mark |-> m, set |-> doc.marks]
    /\ res' = NoRes
    /\ doc' = mark(doc, MarkSet_remove(doc.marks, m))
    /\ UNCHANGED <<overflow_checks, steps>>

\* doc = doc.mark(m.add_to_set(doc.marks))
AddToSetOp(m) ==
    /\ Len(doc.marks) <= Len(MarkTypes)
    /\ op' = "add_to_set"
    /\ req' = [mark |-> m, set |-> doc.marks]
    /\ res' = Ok(add_to_set(m, doc.marks))
    /\ doc' = mark(doc, res'.val)
    /\ UNCHANGED <<overflow_checks, steps>>

\* doc = doc.mark(m.remove_from_set(doc.marks))
RemoveFromSetOp(m) ==
    /\ op' = "remove_from_set"
    /\ req' = [mark |-> m, set |-> doc.marks]
    /\ res' = Ok(remove_from_set(m, doc.marks))
    /\ doc' = mark(doc, res'.val)
    /\ UNCHANGED <<overflow_checks, steps>>

NextMarkSet ==
    \/ \E v \in MarkVecs : MarkSetTryFromOp(v)
    \/ \E m \in MarkValues : MarkSetIntoSetOp(m)
    \/ \E m \in MarkValues : MarkSetAddOp(m)
    \/ \E m \in MarkValues : MarkSetRemoveOp(m)
    \/ \E m \in MarkValues : AddToSetOp(m)
    \/ \E m \in MarkValues : RemoveFromSetOp(m)

SpecMarkSet == InitMarkSet /\ [][NextMarkSet]_vars

(***************************************************************************)
(* C19: the mark set stays strictly sorted by mark type.                   *)
(***************************************************************************)
\* The marks are strictly sorted by type: at most one mark per type
StrictlySorted(set) ==
    \A i \in 1..(Len(set) - 1) : TypeRank(set[i].type) < TypeRank(set[i + 1].type)

\* Two marks of the vector share a type
SharesType(v) ==
    \E i \in 1..Len(v), j \in 1..Len(v) : i # j /\ v[i].type = v[j].type

\* C19: after any sequence of try_from, into_set, add, remove, add_to_set and
\* remove_from_set the marks are strictly sorted by mark type; try_from fails
\* with Duplicates iff two marks of its vector share a type and otherwise
\* holds the marks of the vector; after add and add_to_set the set holds the
\* given mark and, of the set before, the marks of the other types.
C19_MarkSetSorted ==
    /\ StrictlySorted(doc.marks)
    /\ op = "try_from" =>
          /\ (res = Err(Duplicates)) <=> SharesType(req.vec)
          /\ IsOk(res) =>
                /\ Len(res.val) = Len(req.vec)
                /\ \A i \in 1..Len(req.vec) : HasMark(res.val, req.vec[i])
    /\ op \in {"add", "add_to_set"} =>
          /\ HasMark(doc.marks, req.mark)
          /\ WithoutType(doc.marks, req.mark.type) = WithoutType(req.set, req.mark.type)

\* A link has replaced a link with another href in a set of several marks
C19_Witness ==
    /\ op \in {"add", "add_to_set"}
    /\ HasMark(req.set, Link("x"))
    /\ req.mark = Link("y")
    /\ Len(req.set) = Len(MarkTypes)
    /\ HasMark(doc.marks, Link("y"))
    /\ ~HasMark(doc.marks, Link("x"))

\* try_from has sorted a vector that was not in the order of the types
C19_WitnessSorted ==
    /\ op = "try_from"
    /\ IsOk(res)
    /\ Len(req.vec) = MaxVec
    /\ req.vec # res.val

(***************************************************************************)
(* State machine of valid_content: a node type is asked whether a fragment *)
(* is valid content, or a fragment is put into a document by replace.      *)
(***************************************************************************)
NodeTypes == ContentTypes \cup {"Text", "HorizontalRule", "HardBreak", "Image"}

\* The fragments valid_content is asked about and replace inserts
ValidFragments ==
    { Fragment_EMPTY,
      Fragment_from(<<text(<<"x">>)>>),
      Fragment_from(<<strong(<<"x">>)>>),
      Fragment_from(<<em(<<"x">>), text(<<"y">>)>>),
      Fragment_from(<<marked(<<"x">>, into_set(Code))>>),
      Fragment_from(<<marked(<<"x">>, into_set(Link("x")))>>),
      Fragment_from(<<marked(<<"x">>, <<Strong, Em>>)>>),
      Fragment_from(<<text(<<"x">>), br>>),
      Fragment_from(<<p(<<strong(<<"x">>)>>)>>),
      Fragment_from(<<hr>>) }

ValidDocs ==
    { docn(<<code_block("", <<text(<<"c">>)>>)>>),
      docn(<<code_block("", <<>>)>>),
      docn(<<p(<<text(<<"a">>)>>)>>),
      docn(<<h1(<<text(<<"a">>)>>)>>),
      docn(<<blockquote(<<p(<<>>)>>)>>) }

InitValid ==
    /\ doc \in ValidDocs
    /\ op = "init"
    /\ req = NoReq
    /\ res = NoRes
    /\ overflow_checks \in BOOLEAN
    /\ steps = 0

\* t.valid_content(&f)
ValidContentOp(t, f) ==
    /\ op' = "valid_content"
    /\ req' = [type |-> t, fragment |-> f]
    /\ res' = Ok(valid_content(t, f))
    /\ UNCHANGED <<doc, overflow_checks, steps>>

\* doc.replace(from..to, &Slice::new(f, 0, 0))
ReplaceFragmentOp(from, to, f) ==
    /\ op' = "replace"
    /\ req' = [from |-> from, to |-> to, slice |-> Slice_new(f, 0, 0)]
    /\ res' = Node_replace(doc, from, to, req'.slice)
    /\ UNCHANGED <<doc, overflow_checks, steps>>

NextValid ==
    \/ /\ op = "init"
       /\ \E t \in NodeTypes, f \in ValidFragments : ValidContentOp(t, f)
    \/ /\ op = "init"
       /\ \E from \in Positions(doc), to \in Positions(doc), f \in ValidFragments :
             from <= to /\ ReplaceFragmentOp(from, to, f)

SpecValid == InitValid /\ [][NextValid]_vars

(***************************************************************************)
(* C20: valid_content and the marks of the children.                       *)
(***************************************************************************)
\* Some child of the fragment is text that carries a mark
HasMarkedChild(f) ==
    \E i \in 1..Len(f.inner) : is_text(f.inner[i]) /\ f.inner[i].marks # <<>>

\* C20: valid_content(frag) is false whenever a child of frag carries marks
\* the node type does not allow; a replace that puts marked text directly
\* into a node whose type forbids marks fails with InvalidContent.
C20_Original ==
    /\ (op = "valid_content" /\ HasMarkedChild(req.fragment)
        /\ ~allow_marks(req.type)) => res = Ok(FALSE)
    /\ (op = "replace" /\ req.to <= content_size(doc)
        /\ HasMarkedChild(req.slice.content)
        /\ ~allow_marks(ResolvedPos_parent(resolve(doc, req.from).val).type)
        /\ ResolvedPos_parent(resolve(doc, req.from).val)
              = ResolvedPos_parent(resolve(doc, req.to).val)) =>
          \E t \in NodeTypes : res = Err(InvalidContent(t))

\* Marked text has been accepted as content of a code block
C20_MarkedInCodeBlock ==
    /\ op = "replace"
    /\ IsOk(res)
    /\ \E i \in 1..Len(res.val.content.inner) :
          /\ res.val.content.inner[i].type = "CodeBlock"
          /\ HasMarkedChild(res.val.content.inner[i].content)

(***************************************************************************)
(* Traversal and text extraction (fragment.rs, node.rs).  A usize that     *)
(* wrapped below zero is kept as the negative integer v standing for       *)
(* 2^64 + v, so that sums and differences of small numbers stay exact.     *)
(***************************************************************************)
\* a < b on usize
usize_lt(a, b) == IF (a < 0) = (b < 0) THEN a < b ELSE b < 0

\* a - b on usize: a panic with overflow checks, a wrapped value without
usize_sub(a, b) ==
    IF usize_lt(a, b) /\ overflow_checks
    THEN Panic("attempt to subtract with overflow")
    ELSE Ok(a - b)

\* usize::min
usize_min(a, b) == IF usize_lt(b, a) THEN b ELSE a

\* Fragment::nodes_between with a callback that returns true, as the one of
\* text_between does: the calls of the callback in order, <<node, pos>>, and
\* whether the traversal panicked after them.  acc holds the calls so far.
RECURSIVE nodes_between_loop(_, _, _, _, _, _, _)
nodes_between_loop(inner, i, pos, from, to, node_start, acc) ==
    IF i > Len(inner) THEN [visits |-> acc, panicked |-> FALSE]
    ELSE
    Let(inner[i], LAMBDA child :
    Let(pos + node_size(child), LAMBDA end :
    IF ~usize_lt(from, end)
    THEN nodes_between_loop(inner, i + 1, end, from, to, node_start, acc)
    ELSE
    Let(Append(acc, [node |-> child, pos |-> node_start + pos]), LAMBDA called :
    IF ~has_content(child)
    THEN nodes_between_loop(inner, i + 1, end, from, to, node_start, called)
    ELSE
    Let(usize_sub(from, pos + 1), LAMBDA inner_from :
    Let(usize_sub(to, pos + 1), LAMBDA inner_to :
    IF IsPanic(inner_from) \/ IsPanic(inner_to)
    THEN [visits |-> called, panicked |-> TRUE]
    ELSE
    Let(nodes_between_loop(child.content.inner, 1, 0, inner_from.val,
                           usize_min(child.content.size, inner_to.val),
                           node_start + pos + 1, called), LAMBDA below :
    IF below.panicked THEN below
    ELSE nodes_between_loop(inner, i + 1, end, from, to, node_start,
                            below.visits)))))))

\* Fragment::nodes_between
nodes_between(fragment, from, to, node_start) ==
    nodes_between_loop(fragment.inner, 1, 0, from, to, node_start, <<>>)

\* MarkdownNode::is_block
Node_is_block(n) == n.type \notin {"Text", "Image", "HardBreak"}

\* util::split_at_utf16 with an index that may have wrapped: the loop runs
\* out of characters before such an index reaches 0
split_at_utf16_usize(s, index) ==
    IF index < 0 THEN Ok(<<s, <<>> >>) ELSE split_at_utf16(s, index)

\* The text branch of the closure of text_between: the part of the text
\* node at pos that lies between from and to, or a panic
text_between_part(txt, pos, from, to) ==
    Try(IF usize_lt(pos, from)
        THEN Try(split_at_utf16_usize(txt, from - pos), LAMBDA halves :
             Ok([rest |-> halves[2], skip |-> from - pos]))
        ELSE Ok([rest |-> txt, skip |-> 0]), LAMBDA cut :
    Try(usize_sub(to, pos), LAMBDA end :
    Try(usize_sub(end, cut.skip), LAMBDA len :
    Try(split_at_utf16_usize(cut.rest, len), LAMBDA halves :
    Ok(halves[1])))))

\* The closure of text_between, called with a node and its position on the
\* state st = [text, separated]
text_between_visit(st, node, pos, from, to, block_separator, leaf_text) ==
    IF is_text(node)
    THEN Try(text_between_part(node.text.content, pos, from, to), LAMBDA slice :
         Ok([text |-> st.text \o slice, separated |-> block_separator = None]))
    ELSE IF is_leaf(node)
    THEN Ok([text |-> IF leaf_text = None THEN st.text ELSE st.text \o leaf_text.val,
             separated |-> block_separator = None])
    ELSE IF ~st.separated /\ Node_is_block(node)
    THEN Ok([text |-> IF block_separator = None THEN st.text
                      ELSE st.text \o block_separator.val,
             separated |-> TRUE])
    ELSE Ok(st)

\* The closure of text_between over the calls nodes_between makes, in order
RECURSIVE text_between_fold(_, _, _, _, _, _, _)
text_between_fold(st, visits, k, from, to, block_separator, leaf_text) ==
    IF k > Len(visits) THEN Ok(st)
    ELSE Try(text_between_visit(st, visits[k].node, visits[k].pos, from, to,
                                block_separator, leaf_text), LAMBDA next :
         text_between_fold(next, visits, k + 1, from, to, block_separator, leaf_text))

\* Fragment::text_between: Ok(the text pushed to the buffer) or a panic
text_between(fragment, separated, from, to, block_separator, leaf_text) ==
    Let(nodes_between(fragment, from, to, 0), LAMBDA walk :
    Try(text_between_fold([text |-> <<>>, separated |-> separated], walk.visits, 1,
                          from, to, block_separator, leaf_text), LAMBDA st :
    IF walk.panicked THEN Panic("attempt to subtract with overflow")
    ELSE Ok(st.text)))

\* Node::text_content
text_content(n) ==
    IF is_text(n) THEN Ok(n.text.content)
    ELSE IF has_content(n)
    THEN text_between(n.content, TRUE, 0, n.content.size, Some(<<>>), None)
    ELSE Ok(<<>>)

(***************************************************************************)
(* State machine of the traversal: a node is asked for its text content,   *)
(* or its content is traversed between two positions.                      *)
(***************************************************************************)
TextNodes ==
    { text(<<"a", "b">>),
      p(<<>>),
      p(<<text(<<"a">>), br, strong(<<"b">>)>>),
      code_block("", <<text(<<"c">>)>>),
      docn(<<p(<<text(<<"a">>)>>), blockquote(<<p(<<text(<<"b">>)>>)>>)>>),
      docn(<<p(<<text(<<"a", "b">>)>>), p(<<text(<<"c">>)>>)>>),
      docn(<<p(<<text(<<"a">>)>>), hr>>),
      doc_astral }

\* The separators handed to text_between
Separators == {None, Some(<<>>), Some(<<"|">>)}

InitText ==
    /\ doc \in TextNodes
    /\ op = "init"
    /\ req = NoReq
    /\ res = NoRes
    /\ overflow_checks \in BOOLEAN
    /\ steps = 0

\* doc.text_content()
TextContentOp ==
    /\ op' = "text_content"
    /\ req' = NoReq
    /\ res' = text_content(doc)
    /\ UNCHANGED <<doc, overflow_checks, steps>>

\* doc.content.nodes_between(from, to, &mut |node, pos| { calls.push((node, pos)); true }, 0)
NodesBetweenOp(from, to) ==
    /\ op' = "nodes_between"
    /\ req' = [from |-> from, to |-> to]
    /\ \E walk \in {nodes_between(content_or_empty(doc), from, to, 0)} :
          res' = IF walk.panicked THEN Panic("attempt to subtract with overflow")
                 ELSE Ok(walk.visits)
    /\ UNCHANGED <<doc, overflow_checks, steps>>

\* doc.content.text_between(&mut buf, true, from, to, block_separator, leaf_text)
TextBetweenOp(from, to, block_separator, leaf_text) ==
    /\ op' = "text_between"
    /\ req' = [from |-> from, to |-> to, block_separator |-> block_separator,
               leaf_text |-> leaf_text]
    /\ res' = text_between(content_or_empty(doc), TRUE, from, to,
                           block_separator, leaf_text)
    /\ UNCHANGED <<doc, overflow_checks, steps>>

NextText ==
    \/ /\ op = "init"
       /\ TextContentOp
    \/ /\ op = "init"
       /\ \E from \in Positions(doc), to \in Positions(doc) : NodesBetweenOp(from, to)
    \/ /\ op = "init"
       /\ \E from \in Positions(doc), to \in Positions(doc),
             block_separator \in Separators, leaf_text \in Separators :
             TextBetweenOp(from, to, block_separator, leaf_text)

SpecText == InitText /\ [][NextText]_vars

(***************************************************************************)
(* C21: text_content and the traversal behind it.                          *)
(***************************************************************************)
\* Every node below the children `inner`, the first of which starts at
\* base, with the position it starts at: left to right, depth first
RECURSIVE Descendants(_, _)
Descendants(inner, base) ==
    IF inner = <<>> THEN <<>>
    ELSE <<[node |-> Head(inner), pos |-> base]>>
         \o (IF has_content(Head(inner))
             THEN Descendants(Head(inner).content.inner, base + 1)
             ELSE <<>>)
         \o Descendants(Tail(inner), base + node_size(Head(inner)))

\* C21: text_content() is the concatenation, in document order, of the text
\* of all text nodes of the subtree; nodes_between over 0..size calls its
\* callback once for every descendant, left to right and depth first; and a
\* traversal between positions of the node visits no node that starts at or
\* after `to`.
C21_Original ==
    /\ op = "text_content" => res = Ok(TextOf(<<doc>>))
    /\ (op = "nodes_between" /\ req.from = 0 /\ req.to = content_size(doc)) =>
          res = Ok(Descendants(content_or_empty(doc).inner, 0))
    /\ (op = "nodes_between" /\ req.from <= req.to /\ req.to <= content_size(doc)) =>
          /\ IsOk(res)
          /\ \A k \in 1..Len(res.val) : res.val[k].pos < req.to

\* C21, text_content on its own: the result is the text of the subtree.
C21_TextContent ==
    op = "text_content" => res = Ok(TextOf(<<doc>>))

\* Without overflow checks the text below the paragraphs is left out
C21_Empty ==
    /\ op = "text_content"
    /\ ~overflow_checks
    /\ doc = docn(<<p(<<text(<<"a">>)>>), blockquote(<<p(<<text(<<"b">>)>>)>>)>>)
    /\ res = Ok(<<>>)

\* With overflow checks text_content of a document panics
C21_Panics ==
    /\ op = "text_content"
    /\ overflow_checks
    /\ doc = docn(<<p(<<text(<<"a">>)>>), blockquote(<<p(<<text(<<"b">>)>>)>>)>>)
    /\ IsPanic(res)

\* One level deep text_content is the text of the children
C21_OneLevel ==
    (op = "text_content" /\ \A i \in 1..child_count(doc) : is_leaf(doc.content.inner[i]))
        => res = Ok(TextOf(<<doc>>))

\* A traversal has called back for a node that starts after `to`
C21_PastTo ==
    /\ op = "nodes_between"
    /\ req.from <= req.to
    /\ req.to <= content_size(doc)
    /\ IsOk(res)
    /\ \E k \in 1..Len(res.val) : res.val[k].pos > req.to

(***************************************************************************)
(* C22: the frame of replace.                                              *)
(***************************************************************************)
\* The leaves among a sequence of tokens: the text characters with their
\* marks and the non-text leaf nodes, in order
RECURSIVE LeavesOf(_)
LeavesOf(toks) ==
    IF toks = <<>> THEN <<>>
    ELSE (IF Head(toks).kind = "char"
          THEN <<[kind |-> "char", ch |-> Head(toks).ch, marks |-> Head(toks).marks]>>
          ELSE IF Head(toks).kind = "leaf" THEN <<Head(toks)>>
          ELSE <<>>)
         \o LeavesOf(Tail(toks))

\* A replace has returned a document
ReplaceDone == op \in {"replace", "replace_raw"} /\ IsOk(res)

C23_EmptySliceShrinks ==
    (ReplaceDone /\ req.slice.content.size = 0
     /\ req.slice.open_start = 0 /\ req.slice.open_end = 0) =>
        content_size(res.val) = content_size(doc) - (req.to - req.from)

C23_WitnessDelete ==
    /\ ReplaceDone
    /\ req.slice.content.size = 0
    /\ req.to - req.from >= 3
    /\ content_size(res.val) < content_size(doc)

(***************************************************************************)
(* State machine of the content expressions: a node type is asked whether  *)
(* a fragment is valid content, or a content-match state is run over a     *)
(* fragment. Only the types of the children matter, so the fragments are   *)
(* all sequences of up to MaxChildren nodes, one node of every type.       *)
(***************************************************************************)
MaxChildren == 3

\* One node of the given type
TypeNode(t) ==
    CASE t = "Text" -> text(<<"x">>)
      [] t \in {"HorizontalRule", "HardBreak", "Image"} -> [type |-> t]
      [] t = "Heading" -> h1(<<>>)
      [] t = "CodeBlock" -> code_block("", <<>>)
      [] t = "BulletList" -> ul(<<>>)
      [] t = "OrderedList" -> block("OrderedList", <<1, FALSE>>, <<>>)
      [] OTHER -> block(t, <<>>, <<>>)

TypeSeqs == UNION { [1..n -> NodeTypes] : n \in 0..MaxChildren }

ContentFragments == { Fragment_from([i \in 1..Len(ts) |-> TypeNode(ts[i])]) : ts \in TypeSeqs }

ContentMatches ==
    {"InlineStar", "BlockPlus", "BlockStar", "OrTextImageStar", "TextStar",
     "ListItemPlus", "ListItemStar", "ParagraphBlockStar", "Empty"}

InitContent ==
    /\ doc = doc_empty
    /\ op = "init"
    /\ req = NoReq
    /\ res = NoRes
    /\ overflow_checks \in BOOLEAN
    /\ steps = 0

\* m.match_fragment(&f)
MatchFragmentOp(m, f) ==
    /\ op' = "match_fragment"
    /\ req' = [match |-> m, fragment |-> f]
    /\ res' = Ok(match_fragment(m, f))
    /\ UNCHANGED <<doc, overflow_checks, steps>>

NextContent ==
    \/ /\ op = "init"
       /\ \E t \in NodeTypes, f \in ContentFragments : ValidContentOp(t, f)
    \/ /\ op = "init"
       /\ \E m \in ContentMatches, f \in ContentFragments : MatchFragmentOp(m, f)

SpecContent == InitContent /\ [][NextContent]_vars

(***************************************************************************)
(* C24: valid_content and the content expressions.                         *)
(***************************************************************************)
TypesOf(f) == [i \in 1..Len(f.inner) |-> f.inner[i].type]

BlockGroup ==
    {"Paragraph", "Blockquote", "Heading", "HorizontalRule", "CodeBlock",
     "OrderedList", "BulletList"}

InlineGroup == {"Text", "Image", "HardBreak"}

AllIn(ts, S) == \A i \in 1..Len(ts) : ts[i] \in S

\* The content expression of a node type, read as a set of type sequences
MatchesExpr(t, ts) ==
    CASE t \in {"Doc", "Blockquote"} -> Len(ts) >= 1 /\ AllIn(ts, BlockGroup)
      [] t = "Paragraph" -> AllIn(ts, InlineGroup)
      [] t = "Heading" -> AllIn(ts, {"Text", "Image"})
      [] t = "CodeBlock" -> AllIn(ts, {"Text"})
      [] t \in {"BulletList", "OrderedList"} ->
            Len(ts) >= 1 /\ AllIn(ts, {"ListItem"})
      [] t = "ListItem" ->
            Len(ts) >= 1 /\ ts[1] = "Paragraph" /\ AllIn(Tail(ts), BlockGroup)
      [] t \in {"Text", "Image", "HardBreak", "HorizontalRule"} -> Len(ts) = 0

\* The state after the first n children, or None once a child was refused
RECURSIVE FoldMatch(_, _, _)
FoldMatch(m, ts, n) ==
    IF n = 0 THEN Some(m)
    ELSE LET before == FoldMatch(m, ts, n - 1) IN
         IF before = None THEN None ELSE match_type(before.val, ts[n])

C24_WitnessEmptyRefused ==
    /\ op = "valid_content"
    /\ req.type = "Doc"
    /\ req.fragment.inner = <<>>
    /\ ~res.val

\* match_fragment stops at a child in the middle: the first child is
\* accepted, the second is not.
C24_WitnessRefusedMidway ==
    /\ op = "match_fragment"
    /\ Len(req.fragment.inner) = 3
    /\ res.val = None
    /\ FoldMatch(req.match, TypesOf(req.fragment), 1) # None

(***************************************************************************)
(* State machine of compatibility: two content-match states, two node      *)
(* types or two nodes are asked whether they are compatible.               *)
(***************************************************************************)
\* a.compatible(b)
CompatibleOp(a, b) ==
    /\ op' = "compatible"
    /\ req' = [match |-> a, other |-> b]
    /\ res' = Ok(compatible(a, b))
    /\ UNCHANGED <<doc, overflow_checks, steps>>

\* x.compatible_content(y)
CompatibleContentOp(x, y) ==
    /\ op' = "compatible_content"
    /\ req' = [type |-> x, other |-> y]
    /\ res' = Ok(compatible_content(x, y))
    /\ UNCHANGED <<doc, overflow_checks, steps>>

\* check_join(main, sub)
CheckJoinOp(main, sub) ==
    /\ op' = "check_join"
    /\ req' = [main |-> main, sub |-> sub]
    /\ res' = check_join(main, sub)
    /\ UNCHANGED <<doc, overflow_checks, steps>>

NextCompat ==
    \/ /\ op = "init"
       /\ \E a \in ContentMatches, b \in ContentMatches : CompatibleOp(a, b)
    \/ /\ op = "init"
       /\ \E x \in NodeTypes, y \in NodeTypes : CompatibleContentOp(x, y)
    \/ /\ op = "init"
       /\ \E x \in NodeTypes, y \in NodeTypes :
             CheckJoinOp(TypeNode(x), TypeNode(y))

SpecCompat == InitContent /\ [][NextCompat]_vars

(***************************************************************************)
(* C25: symmetry of compatible.                                            *)
(***************************************************************************)

\* C25: a.compatible(b) = b.compatible(a) for every pair of content-match
\* states, compatible_content(x, y) = compatible_content(y, x) for every
\* pair of node types, and check_join succeeds for a pair of nodes exactly
\* when it succeeds for the swapped pair.
C25_Symmetric ==
    /\ op = "compatible" => res.val = compatible(req.other, req.match)
    /\ op = "compatible_content" =>
          res.val = compatible_content(req.other, req.type)
    /\ op = "check_join" => IsOk(res) = IsOk(check_join(req.sub, req.main))

\* C25, the part about node types: compatible_content and check_join do
\* not depend on the order of their arguments.
C25_ContentSymmetric ==
    /\ op = "compatible_content" =>
          res.val = compatible_content(req.other, req.type)
    /\ op = "check_join" => IsOk(res) = IsOk(check_join(req.sub, req.main))

\* The pair on which compatible is not symmetric: block* accepts
\* `paragraph block*`, `paragraph block*` refuses block*.
C25_BlockStarPair ==
    /\ op = "compatible"
    /\ req.match = "BlockStar"
    /\ req.other = "ParagraphBlockStar"
    /\ res.val
    /\ ~compatible(req.other, req.match)

\* No node type has block* or list_item* as its content match, the two
\* states that are only reached after a first child.
C25_StartStates ==
    op = "compatible_content" =>
        /\ content_match(req.type) \notin {"BlockStar", "ListItemStar"}
        /\ content_match(req.other) \notin {"BlockStar", "ListItemStar"}

\* Two node types of different content match that are compatible.
C25_WitnessContent ==
    /\ op = "compatible_content"
    /\ req.type = "ListItem"
    /\ req.other = "Doc"
    /\ res.val

(***************************************************************************)
(* C26: Slice::insert_at and the content match of the receiving node.      *)
(***************************************************************************)
\* The node of the fragment that receives an insertion at dist, found by the
\* descent of insert_into: None when the insertion lands in the fragment
\* itself, otherwise Some of the node with the children it would have.
RECURSIVE Receiver(_, _, _, _)
Receiver(content, dist, insert, parent) ==
    \A found \in {find_index(content, dist, FALSE)} :
    \A child \in {IF IsOk(found) THEN maybe_child(content, found.val.index) ELSE None} :
        IF ~IsOk(found) THEN TRUE
        ELSE IF found.val.offset = dist \/ (child # None /\ is_text(child.val))
        THEN \/ parent = None
             \/ \A l \in {Fragment_cut(content, 0, dist)} :
                \A r \in {Fragment_cut(content, dist, content.size)} :
                    (IsOk(l) /\ IsOk(r)) =>
                        valid_content(parent.val.type,
                                      append(append(l.val, insert), r.val))
        ELSE IF child = None THEN TRUE
        ELSE Receiver(content_or_empty(child.val), dist - found.val.offset - 1,
                      insert, Some(child.val))

\* The receiving node of the slice accepts the fragment at pos
Accepts(slice, pos, fragment) ==
    Receiver(slice.content, pos + slice.open_start, fragment, None)

\* A ReplaceAroundStep over positions inside the document that got as far
\* as inserting its gap into its slice
GapInserted ==
    /\ AroundInside
    /\ gap_overwrites(req, doc) = Ok(FALSE)
    /\ IsOk(GapOf)
    /\ GapOf.val.open_start = 0
    /\ GapOf.val.open_end = 0
    /\ ~IsPanic(insert_at(req.slice, req.insert, GapOf.val.content))
    /\ ~IsErr(insert_at(req.slice, req.insert, GapOf.val.content))

\* C26: insert_at returns None when the node of the slice that receives the
\* fragment does not accept the resulting children, so that the
\* ReplaceAroundStep fails with GapNotFit.
C26_Original ==
    (GapInserted /\ ~Accepts(req.slice, req.insert, GapOf.val.content)) =>
        /\ insert_at(req.slice, req.insert, GapOf.val.content) = Ok(None)
        /\ res = Err(GapNotFit)

\* The tokens of a fragment without the parent type the characters carry
Bare(toks) ==
    [i \in 1..Len(toks) |->
        IF toks[i].kind = "char"
        THEN [kind |-> "char", ch |-> toks[i].ch, marks |-> toks[i].marks]
        ELSE toks[i]]

BareTokens(f) == Bare(FlatNodes(f.inner, "Doc"))

\* C26, the other half: what insert_at returns has the open depths of the
\* slice, and its content is the content of the slice with the fragment
\* spliced in at offset insert + open_start.
C26_Spliced ==
    GapInserted =>
        \A ins \in {insert_at(req.slice, req.insert, GapOf.val.content)} :
            /\ ins.val # None
            /\ ins.val.val.open_start = req.slice.open_start
            /\ ins.val.val.open_end = req.slice.open_end
            /\ BareTokens(ins.val.val.content)
                  = SubSeq(BareTokens(req.slice.content), 1,
                           req.insert + req.slice.open_start)
                    \o BareTokens(GapOf.val.content)
                    \o SubSeq(BareTokens(req.slice.content),
                              req.insert + req.slice.open_start + 1,
                              req.slice.content.size)

\* A paragraph is wrapped in a paragraph: the gap is a whole paragraph, the
\* slice an empty paragraph that receives it, and the step succeeds with a
\* document that holds a paragraph inside a paragraph.
C26_ParagraphInParagraph ==
    /\ GapInserted
    /\ ~Accepts(req.slice, req.insert, GapOf.val.content)
    /\ IsOk(res)
    /\ \E i \in 1..Len(res.val.content.inner) :
          /\ res.val.content.inner[i].type = "Paragraph"
          /\ ~valid_content("Paragraph", res.val.content.inner[i].content)

\* A gap that fits: a paragraph is wrapped in a block quote.
C26_Fits ==
    /\ GapInserted
    /\ req.gap_from < req.gap_to
    /\ req.slice.content.size > 0
    /\ Accepts(req.slice, req.insert, GapOf.val.content)
    /\ IsOk(res)

(***************************************************************************)
(* State machine of find_index: the content of a node is asked for the     *)
(* child at a position.                                                    *)
(***************************************************************************)
\* The nodes whose content is searched: the documents, a paragraph with
\* text nodes of more than one code unit, and a document of three blocks
IndexNodes ==
    Docs \cup EditDocs
         \cup { p(<<text(<<"a", "b">>), strong(<<"c", "d">>), br, text(<<"e">>)>>),
                docn(<<p(<<text(<<"a">>)>>), blockquote(<<p(<<>>)>>), hr>>) }

InitIndex ==
    /\ doc \in IndexNodes
    /\ op = "init"
    /\ req = NoReq
    /\ res = NoRes
    /\ overflow_checks \in BOOLEAN
    /\ steps = 0

\* doc.content.find_index(pos, round)
FindIndexOp(pos, round) ==
    /\ op' = "find_index"
    /\ req' = [pos |-> pos, round |-> round]
    /\ res' = find_index(content_or_empty(doc), pos, round)
    /\ UNCHANGED <<doc, overflow_checks, steps>>

NextIndex ==
    /\ op = "init"
    /\ \E pos \in Positions(doc), round \in BOOLEAN : FindIndexOp(pos, round)

SpecIndex == InitIndex /\ [][NextIndex]_vars

(***************************************************************************)
(* C27: find_index(pos, false).                                            *)
(***************************************************************************)
\* The total size of the first i children
SizeBefore(f, i) == SumSizes(SubSeq(f.inner, 1, i))

\* find_index(pos, false) has been asked of the content of the node
Found == op = "find_index" /\ ~req.round

\* C27: for pos <= f.size, find_index(pos, false) returns {index i, offset
\* off} where off is the total size of the first i children, off <= pos, and
\* pos < off + child(i).node_size when i < child_count; pos = 0 gives {0, 0},
\* pos = f.size gives {child_count, f.size}, a pos on an inner child
\* boundary gives the index of the child that starts there, and
\* pos > f.size is an error.
C27_FindIndex ==
    Found =>
        \A f \in {content_or_empty(doc)} :
            /\ req.pos > f.size => IsErr(res)
            /\ req.pos <= f.size =>
                  /\ IsOk(res)
                  /\ res.val.index \in 0..Len(f.inner)
                  /\ res.val.offset = SizeBefore(f, res.val.index)
                  /\ res.val.offset <= req.pos
                  /\ res.val.index < Len(f.inner) =>
                        req.pos < res.val.offset
                                  + node_size(f.inner[res.val.index + 1])
            /\ req.pos = 0 => res = Ok(Index_new(0, 0))
            /\ req.pos = f.size => res = Ok(Index_new(Len(f.inner), f.size))
            /\ \A i \in 0..Len(f.inner) :
                  SizeBefore(f, i) = req.pos /\ req.pos > 0 =>
                      res = Ok(Index_new(i, req.pos))

\* A position inside a child that is neither the first nor the last: the
\* answer is the child that holds it and the offset where that child starts.
C27_Witness ==
    /\ Found
    /\ IsOk(res)
    /\ res.val.index > 0
    /\ res.val.index + 1 < Len(content_or_empty(doc).inner)
    /\ res.val.offset < req.pos

\* A position on the boundary between two children
C27_WitnessBoundary ==
    /\ Found
    /\ IsOk(res)
    /\ res.val.index > 0
    /\ res.val.index < Len(content_or_empty(doc).inner)
    /\ res.val.offset = req.pos

\* A position past the end
C27_WitnessError ==
    /\ Found
    /\ IsErr(res)

(***************************************************************************)
(* C28: Mark::remove_from_set and Mark::add_to_set against the marks of    *)
(* the set.                                                                *)
(***************************************************************************)
\* The set holds a mark equal to m
Contains(set, m) == \E i \in 1..Len(set) : set[i] = m

\* The set without the marks equal to m
Without(set, m) == SelectSeq(set, LAMBDA x : x # m)

\* C28: remove_from_set returns the set unchanged when it holds no mark
\* equal to the given one, also when it holds another mark of the same
\* type, and otherwise the set without the mark; add_to_set returns the set
\* unchanged when it already holds an equal mark.
C28_Original ==
    /\ op = "remove_from_set" =>
          res.val = IF Contains(req.set, req.mark)
                    THEN Without(req.set, req.mark)
                    ELSE req.set
    /\ (op = "add_to_set" /\ Contains(req.set, req.mark)) => res.val = req.set

\* C28, what remove_from_set does: the set without the mark of the type of
\* the given mark, whatever its attributes.
C28_RemovesByType ==
    op = "remove_from_set" => res.val = WithoutType(req.set, req.mark.type)

\* C28, the half about add_to_set: the set is returned as it is when it
\* holds an equal mark.
C28_AddKeeps ==
    (op = "add_to_set" /\ Contains(req.set, req.mark)) => res.val = req.set

\* A link is removed from a set that holds a link with another href and
\* another mark: the other link is gone.
C28_OtherLinkRemoved ==
    /\ op = "remove_from_set"
    /\ req.mark = Link("x")
    /\ Contains(req.set, Link("y"))
    /\ Len(req.set) = 2
    /\ ~Contains(res.val, Link("y"))

\* A mark is added to a set of two marks that holds it
C28_AddWitness ==
    /\ op = "add_to_set"
    /\ Contains(req.set, req.mark)
    /\ Len(req.set) = 2
    /\ res.val = req.set

(***************************************************************************)
(* C29: the size of a slice of a non-empty range.                          *)
(***************************************************************************)
\* doc.slice(from..to, false) has been taken for from < to inside the
\* document
SlicedRange ==
    /\ op = "slice"
    /\ ~req.include_parents
    /\ req.from < req.to
    /\ req.to <= content_size(doc)

\* C29 as stated: for every from < to inside the document the slice
\* s = d.slice(from..to, false) has
\* s.content.size = (to - from) + s.open_start + s.open_end.
C29_Original ==
    SlicedRange =>
        /\ IsOk(res)
        /\ res.val.content.size
              = (req.to - req.from) + res.val.open_start + res.val.open_end

\* C29: for every from < to inside the document, neither inside a surrogate
\* pair, the slice s = d.slice(from..to, false) has
\* s.content.size = (to - from) + s.open_start + s.open_end, and the tokens
\* of its content are those of the range between open_start openings and
\* open_end closings.
C29_SliceRelation ==
    (SlicedRange /\ ~InsidePair(doc, req.from) /\ ~InsidePair(doc, req.to)) =>
        /\ IsOk(res)
        /\ res.val.content.size
              = (req.to - req.from) + res.val.open_start + res.val.open_end
        /\ \A toks \in {BareTokens(res.val.content)} :
              /\ Len(toks) = res.val.content.size
              /\ \A i \in 1..res.val.open_start : toks[i].kind = "open"
              /\ \A i \in 1..res.val.open_end :
                    toks[Len(toks) + 1 - i].kind = "close"
              /\ SubSeq(toks, res.val.open_start + 1,
                        Len(toks) - res.val.open_end)
                    = Bare(SubSeq(Flat(doc), req.from + 1, req.to))

\* A slice from inside a paragraph two levels down into the next paragraph:
\* one opening and one closing more than the range holds.
C29_Witness ==
    /\ SlicedRange
    /\ IsOk(res)
    /\ res.val.open_start = 1
    /\ res.val.open_end = 1
    /\ resolve(doc, req.from).val.depth = 3
    /\ res.val.content.size = (req.to - req.from) + 2

\* A range that ends inside a surrogate pair
C29_InsidePair ==
    /\ SlicedRange
    /\ InsidePair(doc, req.to)
    /\ ~(/\ IsOk(res)
         /\ res.val.content.size
               = (req.to - req.from) + res.val.open_start + res.val.open_end)

(***************************************************************************)
(* The markdown serializer (to_markdown.rs): an iterator over the events   *)
(* of a document.  Its state is                                            *)
(*   inner   the stack of <<node, index>> still to be visited              *)
(*   marks   the stack of marks whose tags are open                        *)
(*   stack   events that are due before anything else                      *)
(***************************************************************************)
Event_Start(tag) == [ev |-> "Start", tag |-> tag]
Event_End(tag) == [ev |-> "End", tag |-> tag]
Event_Text(s) == [ev |-> "Text", text |-> s]
Event_Code(s) == [ev |-> "Code", text |-> s]
Event_Rule == [ev |-> "Rule"]
Event_HardBreak == [ev |-> "HardBreak"]

Tag(name, attrs) == [tag |-> name, attrs |-> attrs]

Vec_last(v) == v[Len(v)]
Vec_pop(v) == SubSeq(v, 1, Len(v) - 1)

\* MarkdownSerializer::new
MarkdownSerializer_new(d) == [inner |-> <<<<d, 0>>>>, marks |-> <<>>, stack |-> <<>>]

\* mark_tag: Ok(tag), or the panic of unimplemented!
mark_tag(m) ==
    CASE m.type = "Strong" -> Ok(Tag("Strong", <<>>))
      [] m.type = "Em" -> Ok(Tag("Emphasis", <<>>))
      [] m.type = "Code" ->
            Panic("not implemented: Should not be pushed on the mark stack")
      [] m.type = "Link" -> Ok(Tag("Link", m.attrs))

\* The `map(attrs)` closures of the arms of next
node_tag(node) ==
    CASE node.type = "Heading" -> Tag("Heading", node.attrs)
      [] node.type = "CodeBlock" -> Tag("CodeBlock", node.attrs)
      [] node.type = "Blockquote" -> Tag("BlockQuote", <<>>)
      [] node.type = "Paragraph" -> Tag("Paragraph", <<>>)
      [] node.type = "BulletList" -> Tag("List", <<>>)
      [] node.type = "OrderedList" -> Tag("List", <<node.attrs[1]>>)
      [] node.type = "ListItem" -> Tag("Item", <<>>)
      [] node.type = "Image" -> Tag("Image", <<>>)

\* `return Some(ev)` with the serializer as it is left
Emit(ser, ev) == Ok([ser |-> ser, ev |-> Some(ev)])

\* The mark on top of the mark stack is popped, the node is pushed back to
\* be visited again, and the End of the mark is the event
pop_mark(ser, node, index) ==
    Try(mark_tag(Vec_last(ser.marks)), LAMBDA tag :
    Emit([ser EXCEPT !.marks = Vec_pop(@),
                     !.inner = Append(@, <<node, index>>)],
         Event_End(tag)))

\* MarkdownSerializer::process_content: [ser, last]
process_content(ser, index, content, node) ==
    Let(maybe_child(content, index), LAMBDA child :
    IF child # None
    THEN [ser |-> [ser EXCEPT !.inner = @ \o <<<<node, index + 1>>, <<child.val, 0>>>>],
          last |-> FALSE]
    ELSE [ser |-> ser, last |-> TRUE])

RECURSIVE MarkdownSerializer_next(_)

\* MarkdownSerializer::process_attr_node
process_attr_node(ser, index, content, node, tag) ==
    IF index = 0 /\ ser.marks # <<>> THEN pop_mark(ser, node, 0)
    ELSE
    Let(process_content(ser, index, content, node), LAMBDA pc :
    IF index = 0
    THEN Emit(IF pc.last
              THEN [pc.ser EXCEPT !.inner = Append(@, <<node, index + 1>>)]
              ELSE pc.ser,
              Event_Start(tag))
    ELSE IF pc.last
    THEN IF pc.ser.marks # <<>> THEN pop_mark(pc.ser, node, index)
         ELSE IF tag.tag = "CodeBlock"
         THEN Emit([pc.ser EXCEPT !.stack = Append(@, Event_End(tag))],
                   Event_Text(<<"\n">>))
         ELSE Emit(pc.ser, Event_End(tag))
    ELSE MarkdownSerializer_next(pc.ser))

\* The first mark of the text node, in the order of its set, that is not
\* code and not on the mark stack
RECURSIVE first_unopened(_, _)
first_unopened(node_marks, open) ==
    IF node_marks = <<>> THEN None
    ELSE IF Head(node_marks) # Code /\ ~Contains(open, Head(node_marks))
    THEN Some(Head(node_marks))
    ELSE first_unopened(Tail(node_marks), open)

\* The MarkdownNode::Text arm of next
next_text(ser, node, index) ==
    IF ser.marks # <<>> /\ ~Contains(node.marks, Vec_last(ser.marks))
    THEN pop_mark(ser, node, index)
    ELSE
    Let(first_unopened(node.marks, ser.marks), LAMBDA m :
    IF m # None
    THEN Try(mark_tag(m.val), LAMBDA tag :
         Emit([ser EXCEPT !.inner = Append(@, <<node, index>>),
                          !.marks = Append(@, m.val)],
              Event_Start(tag)))
    ELSE IF Contains(node.marks, Code)
    THEN Emit(ser, Event_Code(node.text.content))
    ELSE Emit(ser, Event_Text(node.text.content)))

\* Iterator::next for MarkdownSerializer: Ok([ser, ev]) with ev Some(event)
\* or None, or a panic
MarkdownSerializer_next(ser) ==
    IF ser.stack # <<>>
    THEN Emit([ser EXCEPT !.stack = Vec_pop(@)], Vec_last(ser.stack))
    ELSE IF ser.inner = <<>> THEN Ok([ser |-> ser, ev |-> None])
    ELSE
    Let(Vec_last(ser.inner), LAMBDA top :
    Let([ser EXCEPT !.inner = Vec_pop(@)], LAMBDA s :
    CASE top[1].type = "Doc" ->
            MarkdownSerializer_next(
                process_content(s, top[2], top[1].content, top[1]).ser)
      [] top[1].type = "Text" -> next_text(s, top[1], top[2])
      [] top[1].type = "HorizontalRule" -> Emit(s, Event_Rule)
      [] top[1].type = "HardBreak" -> Emit(s, Event_HardBreak)
      [] top[1].type = "Image" ->
            process_attr_node(s, top[2], Fragment_EMPTY, top[1], node_tag(top[1]))
      [] OTHER ->
            process_attr_node(s, top[2], top[1].content, top[1], node_tag(top[1]))))

(***************************************************************************)
(* State machine of to_markdown: the serializer is made for a document and *)
(* cmark takes its events one by one until it gets None.                   *)
(*   req.ser     the serializer                                            *)
(*   req.events  the events taken so far                                   *)
(*   res         what the last call of next returned                       *)
(***************************************************************************)
MarkdownDocs ==
    { docn(<<p(<<marked(<<"a">>, <<Strong, Em>>), em(<<"b">>)>>)>>),
      docn(<<p(<<marked(<<"a">>, <<Strong, Em>>), strong(<<"b">>), text(<<"c">>)>>)>>),
      docn(<<p(<<text(<<"a">>), strong(<<"b">>), text(<<"c">>)>>)>>),
      docn(<<h1(<<text(<<"a">>)>>), code_block("", <<text(<<"b">>)>>),
             blockquote(<<p(<<text(<<"c">>), strong(<<"d">>), text(<<"e">>)>>)>>)>>),
      docn(<<p(<<marked(<<"a">>, into_set(Code)), marked(<<"b">>, <<Em, Code>>)>>)>>),
      docn(<<p(<<marked(<<"a">>, into_set(Link("x"))),
                 marked(<<"b">>, into_set(Link("y")))>>)>>),
      docn(<<p(<<strong(<<"a">>)>>), p(<<strong(<<"b">>)>>), hr>>),
      docn(<<p(<<strong(<<"a">>), br, strong(<<"b">>)>>), p(<<>>)>>),
      docn(<<ul(<<li(<<p(<<em(<<"a">>)>>)>>), li(<<p(<<text(<<"b">>)>>)>>)>>)>>),
      docn(<<p(<<strong(<<"a">>), [type |-> "Image"], text(<<"b">>)>>)>>),
      doc_empty }

InitMarkdown ==
    /\ doc \in MarkdownDocs
    /\ op = "init"
    /\ req = NoReq
    /\ res = NoRes
    /\ overflow_checks \in BOOLEAN
    /\ steps = 0

\* let events = MarkdownSerializer::new(doc)
SerializerNewOp ==
    /\ op = "init"
    /\ op' = "new"
    /\ req' = [ser |-> MarkdownSerializer_new(doc), events |-> <<>>]
    /\ res' = NoRes
    /\ UNCHANGED <<doc, overflow_checks, steps>>

\* events.next(), as long as the last call gave an event
SerializerNextOp ==
    /\ op \in {"new", "next"}
    /\ op = "next" => (IsOk(res) /\ res.val # None)
    /\ \E r \in {MarkdownSerializer_next(req.ser)} :
          /\ op' = "next"
          /\ res' = IF IsOk(r) THEN Ok(r.val.ev) ELSE r
          /\ req' = IF IsOk(r)
                    THEN [ser |-> r.val.ser,
                          events |-> IF r.val.ev = None THEN req.events
                                     ELSE Append(req.events, r.val.ev.val)]
                    ELSE req
    /\ UNCHANGED <<doc, overflow_checks, steps>>

NextMarkdown ==
    \/ SerializerNewOp
    \/ SerializerNextOp

SpecMarkdown == InitMarkdown /\ [][NextMarkdown]_vars

(***************************************************************************)
(* C30: the mark tags around the text events of the serializer.            *)
(***************************************************************************)
MarkTagNames == {"Strong", "Emphasis", "Link"}

\* The tags that are open after the first n events, innermost last, and
\* whether every End so far closed the innermost open tag
RECURSIVE TagStack(_, _)
TagStack(trace, n) ==
    IF n = 0 THEN [ok |-> TRUE, open |-> <<>>]
    ELSE Let(TagStack(trace, n - 1), LAMBDA before :
         Let(trace[n], LAMBDA e :
         IF e.ev = "Start" THEN [before EXCEPT !.open = Append(@, e.tag)]
         ELSE IF e.ev = "End"
         THEN IF before.open # <<>> /\ Vec_last(before.open) = e.tag
              THEN [before EXCEPT !.open = Vec_pop(@)]
              ELSE [before EXCEPT !.ok = FALSE]
         ELSE before))

\* The mark tags among the open tags
OpenMarkTags(open) ==
    {open[i] : i \in {j \in 1..Len(open) : open[j].tag \in MarkTagNames}}

\* The text nodes of a node
RECURSIVE TextNodesIn(_)
TextNodesIn(n) ==
    IF is_text(n) THEN {n}
    ELSE IF has_content(n)
    THEN UNION {TextNodesIn(n.content.inner[i]) : i \in 1..Len(n.content.inner)}
    ELSE {}

\* The tags of the marks of a text node other than code
MarkTagsOf(n) ==
    {mark_tag(n.marks[i]).val : i \in {j \in 1..Len(n.marks) : n.marks[j] # Code}}

\* Event i is the text of a text node of the document and the open mark
\* tags are not the tags of the marks of that node
Misbracketed(trace, i) ==
    /\ trace[i].ev \in {"Text", "Code"}
    /\ \E n \in TextNodesIn(doc) :
          /\ n.text.content = trace[i].text
          /\ OpenMarkTags(TagStack(trace, i - 1).open) # MarkTagsOf(n)

\* Every End closed the innermost open tag, and once the events are over no
\* tag is open
Nested(trace) ==
    /\ TagStack(trace, Len(trace)).ok
    /\ res = Ok(None) => TagStack(trace, Len(trace)).open = <<>>

\* C30: every Text or Code event of a text node is emitted while the mark
\* tags that are started and not ended are exactly those of the marks of
\* the node other than code; Start and End are properly nested, so every
\* mark tag opened in a block is ended before the End of the block.
C30_Original ==
    op = "next" =>
        /\ ~IsPanic(res)
        /\ Nested(req.events)
        /\ \A i \in 1..Len(req.events) : ~Misbracketed(req.events, i)

\* C30, the part about nesting: no call panics, every End closes the
\* innermost open tag, and nothing is open when the events are over.
C30_Nested ==
    op = "next" => (~IsPanic(res) /\ Nested(req.events))

\* C30, one direction of the bracketing: the tags of the marks of the text
\* node are all open when its text is emitted.
C30_MarksOpen ==
    op = "next" =>
        \A i \in 1..Len(req.events) :
            req.events[i].ev \in {"Text", "Code"} =>
                \A n \in TextNodesIn(doc) :
                    n.text.content = req.events[i].text =>
                        MarkTagsOf(n) \subseteq
                            OpenMarkTags(TagStack(req.events, i - 1).open)

\* The text of a node that is only emphasised is emitted while Strong is
\* still open from the node before it.
C30_StrongStillOpen ==
    /\ op = "next"
    /\ res = Ok(Some(Event_Text(<<"b">>)))
    /\ Misbracketed(req.events, Len(req.events))
    /\ Tag("Strong", <<>>) \in
          OpenMarkTags(TagStack(req.events, Len(req.events) - 1).open)

\* The events of a document with marked text are over: marks were opened
\* and everything is closed.
C30_Finished ==
    /\ op = "next"
    /\ res = Ok(None)
    /\ \E i \in 1..Len(req.events) :
          req.events[i].ev = "Start" /\ req.events[i].tag.tag \in MarkTagNames
    /\ \E i \in 1..Len(req.events) : req.events[i].ev = "Code"

====
